---- MODULE Spec2Model ----
(***************************************************************************)
(* Model of tools/tag_atlas.py: the enrichment run (process_atlas) with    *)
(* its batch planner, oracle retry loop, positional merge and checkpoint.  *)
(* Strings that are compared or split (sprite keys, prefixes) are          *)
(* sequences of code points; strings that are only stored and tested for   *)
(* emptiness (descriptions, tags, tile types) are TLA+ strings.            *)
(***************************************************************************)
EXTENDS Integers, Sequences, FiniteSets, TLC

(* ---------------------------------------------------------------- bounds *)

\* Largest number of sprites in a catalog.
MaxSprites == 3
\* Largest --batch-size drawn.
MaxBatch == 2
\* The --limit drawn besides 0 (no limit).
MaxLimit == 1
\* Largest number of sprites in a catalog of the specifications that draw
\* every shape of reply, or invoke the tool several times.
MaxFewSprites == 2

(* ------------------------------------------------------- generic helpers *)

Range(s) == {s[i] : i \in DOMAIN s}

Min(a, b) == IF a < b THEN a ELSE b

\* ceil(a / b) for a >= 0, b >= 1 (math.ceil of a true division).
CeilDiv(a, b) == (a + b - 1) \div b

\* Python slice s[lo:hi] with 0-based, end-exclusive indices, 0 <= lo.
Slice(s, lo, hi) == SubSeq(s, lo + 1, Min(hi, Len(s)))

\* Python str "<": code point by code point, a proper prefix is smaller.
LexLess(s, t) ==
    \E i \in 1..(Len(s) + 1) :
        /\ i <= Len(t)
        /\ \A j \in 1..(i - 1) : s[j] = t[j]
        /\ (i = Len(s) + 1 \/ s[i] < t[i])

\* Insert x into the ascending sequence s, after the elements not above it.
RECURSIVE InsertSorted(_, _)
InsertSorted(x, s) ==
    IF s = <<>> THEN <<x>>
    ELSE IF LexLess(x, Head(s)) THEN <<x>> \o s
    ELSE <<Head(s)>> \o InsertSorted(x, Tail(s))

\* sorted(xs) on strings.
RECURSIVE Sorted(_)
Sorted(xs) ==
    IF xs = <<>> THEN <<>>
    ELSE InsertSorted(xs[Len(xs)], Sorted(SubSeq(xs, 1, Len(xs) - 1)))

\* list.remove(x): the first occurrence only.
RECURSIVE RemoveFirst(_, _)
RemoveFirst(s, x) ==
    IF s = <<>> THEN <<>>
    ELSE IF Head(s) = x THEN Tail(s)
    ELSE <<Head(s)>> \o RemoveFirst(Tail(s), x)

(* ---------------------------------------------------------- sprite keys *)

\* Code points of the characters that occur in keys and prefixes.
Ch == [slash |-> 47, backslash |-> 92, underscore |-> 95,
       a |-> 97, b |-> 98, c |-> 99, d |-> 100,
       o |-> 111, r |-> 114, t |-> 116]

\* "_root"
RootPrefix == <<Ch.underscore, Ch.r, Ch.o, Ch.o, Ch.t>>

\* The keys catalogs are built from:
\*   "b", "a/c", "a/c/d", "a\c\b"
KeyB    == <<Ch.b>>
KeyAC   == <<Ch.a, Ch.slash, Ch.c>>
KeyACD  == <<Ch.a, Ch.slash, Ch.c, Ch.slash, Ch.d>>
KeyACBw == <<Ch.a, Ch.backslash, Ch.c, Ch.backslash, Ch.b>>

\* The keys in the order the upstream indexer may have written them.
KeyUniverse == <<KeyACBw, KeyB, KeyACD, KeyAC>>

\* key.replace("\\", "/")
NormSlashes(key) ==
    [i \in DOMAIN key |-> IF key[i] = Ch.backslash THEN Ch.slash ELSE key[i]]

\* str.split("/"): the segments between the separators (at least one).
RECURSIVE Split(_, _)
Split(s, sep) ==
    IF \A i \in DOMAIN s : s[i] # sep THEN <<s>>
    ELSE LET i == CHOOSE n \in DOMAIN s :
                      s[n] = sep /\ \A m \in 1..(n - 1) : s[m] # sep
         IN  <<SubSeq(s, 1, i - 1)>> \o Split(SubSeq(s, i + 1, Len(s)), sep)

\* The group of a key: "/".join(parts[:2]), parts[0] or "_root".
PrefixOf(key) ==
    LET parts == Split(NormSlashes(key), Ch.slash)
    IN  IF Len(parts) >= 3 THEN parts[1] \o <<Ch.slash>> \o parts[2]
        ELSE IF Len(parts) >= 2 THEN parts[1]
        ELSE RootPrefix

(* -------------------------------------------------------------- sprites *)

EnrichFields == {"description", "tags", "tile_type"}

\* Truthiness of sprite_info.get(f): a missing field gives None.
Truthy(info, f) ==
    /\ f \in DOMAIN info
    /\ IF f = "tags" THEN info[f] # <<>> ELSE info[f] # ""

\* is_enriched without the test of tile_type.
is_enriched_no_type(sprite_info) ==
    Truthy(sprite_info, "description") /\ Truthy(sprite_info, "tags")

is_enriched(sprite_info) ==
    /\ Truthy(sprite_info, "description")
    /\ Truthy(sprite_info, "tags")
    /\ Truthy(sprite_info, "tile_type")


\* dict assignment info[f] = v.
Put(info, f, v) == (f :> v) @@ info

\* A dict without the fields fs.
Without(info, fs) == [f \in (DOMAIN info) \ fs |-> info[f]]

\* What the upstream indexer writes for the i-th key: position, and for some
\* sprites an extent and a field this tool does not know.
BaseInfo(i) ==
    IF i % 2 = 0
    THEN [row |-> 0, col |-> i, tiles_x |-> 1, tiles_y |-> 2, note |-> "keep"]
    ELSE [row |-> 0, col |-> i]

\* A function with the empty domain (no enrichment field present).
NoFields == [f \in {} |-> ""]

\* Every combination of missing / empty / non-empty enrichment fields.
AllEnrichStates ==
    { [f \in fs |-> IF f = "tags"
                    THEN (IF f \in ne THEN <<"door">> ELSE <<>>)
                    ELSE (IF f \in ne
                          THEN (IF f = "description" THEN "an old door" ELSE "wall")
                          ELSE "")] :
      fs \in SUBSET EnrichFields, ne \in SUBSET EnrichFields }

\* The enrichment states drawn for catalogs of several sprites: fresh from
\* the indexer, and enriched.
FewEnrichStates ==
    { NoFields,
      [description |-> "a stone wall", tags |-> <<"stone", "wood">>,
       tile_type |-> "wall"] }

(* ------------------------------------------------------------- catalogs *)

\* The index document: catalog-wide metadata and the sprites, an ordered
\* mapping (sprite_order is the iteration order of the dict).
Doc(order, sprites) ==
    [tile_size |-> <<32, 32>>, columns |-> 64,
     sprite_order |-> order, sprites |-> sprites]

IndexOfKey(key) == CHOOSE i \in DOMAIN KeyUniverse : KeyUniverse[i] = key

\* The key orders drawn: the keys of a subset of the universe, in the
\* universe's order or reversed.
KeyOrders(n) ==
    LET sub(S) == SelectSeq(KeyUniverse, LAMBDA k : IndexOfKey(k) \in S)
    IN  { sub(S) : S \in {T \in SUBSET DOMAIN KeyUniverse :
                                Cardinality(T) <= n} }

\* The catalogs of at most n sprites; the catalog of the one sprite "b"
\* comes in every enrichment state, the others in the few.
Catalogs(n) ==
    UNION { { Doc(order, [k \in Range(order) |-> e[k] @@ BaseInfo(IndexOfKey(k))]) :
              e \in [Range(order) ->
                       IF order = <<KeyB>> THEN AllEnrichStates
                       ELSE FewEnrichStates] } :
            order \in KeyOrders(n) }

(* ---------------------------------------------------------------- files *)

NoFile == [exists |-> FALSE]

\* A JSON file: the document it encodes and how it is laid out.
File(doc, fmt) == [exists |-> TRUE, content |-> doc, fmt |-> fmt]

\* json.load(f)
load_index(file) == file.content

\* A file whose bytes are a proper prefix of a document, the empty prefix
\* included: what open(path, "w") and an unfinished json.dump leave.
TornFile == [exists |-> TRUE, content |-> [sprite_order |-> <<>>, sprites |-> <<>>],
             fmt |-> "truncated"]

\* json.load raises JSONDecodeError on the file.
Unloadable(file) == file.exists /\ file.fmt = "truncated"

\* json.dump(data, f, indent=2, ensure_ascii=False) and a final newline.
\* A save that writes the fields it knows and drops the others.
save_index_known_fields(data) ==
    File([data EXCEPT !.sprites =
             [k \in DOMAIN @ |-> Without(@[k], (DOMAIN @[k]) \
                 ({"row", "col", "tiles_x", "tiles_y"} \cup EnrichFields))]],
         "indent2")

save_index(data) == File(data, "indent2")

\* The registry entries that differ in shape: a separate tagged output
\* with DCSS checks, and an index that is enriched in place.
ATLASES ==
    [utumno |-> [index |-> "dcss_utumno_index.json",
                 output |-> "dcss_utumno_index_tagged.json",
                 check_extra |-> "check_dcss"],
     kenney |-> [index |-> "kenney_atlas_index.json",
                 output |-> "kenney_atlas_index.json",
                 check_extra |-> "none"]]

Paths == {ATLASES[a].index : a \in DOMAIN ATLASES}
            \cup {ATLASES[a].output : a \in DOMAIN ATLASES}


(* -------------------------------------------------------------- planner *)

\* todo without the filter: every key of the index.
TodoAll(doc) == doc.sprite_order

\* [key for key in sprites if not is_enriched(sprites[key])], in dict order.
Todo(doc) ==
    SelectSeq(doc.sprite_order, LAMBDA k : ~is_enriched(doc.sprites[k]))

\* group_by_prefix: prefix -> the keys of that prefix, in iteration order.
group_by_prefix(keys) ==
    [p \in {PrefixOf(k) : k \in Range(keys)} |->
        SelectSeq(keys, LAMBDA k : PrefixOf(k) = p)]

\* A sequence holding the elements of the set S of strings, ascending.
RECURSIVE SortedSet(_)
SortedSet(S) ==
    IF S = {} THEN <<>>
    ELSE LET x == CHOOSE y \in S : \A z \in S \ {y} : LexLess(y, z)
         IN  <<x>> \o SortedSet(S \ {x})

\* The loop below without sorted(): each group in iteration order.
RECURSIVE ExtendAllUnsorted(_, _)
ExtendAllUnsorted(prefixes, groups) ==
    IF prefixes = <<>> THEN <<>>
    ELSE groups[Head(prefixes)] \o ExtendAllUnsorted(Tail(prefixes), groups)

\* ordered_keys.extend(sorted(groups[prefix])) for each prefix in turn.
RECURSIVE ExtendAll(_, _)
ExtendAll(prefixes, groups) ==
    IF prefixes = <<>> THEN <<>>
    ELSE Sorted(groups[Head(prefixes)]) \o ExtendAll(Tail(prefixes), groups)

\* for prefix in sorted(groups.keys()): ordered_keys.extend(sorted(groups[prefix]))
OrderedKeys(todo) ==
    LET groups == group_by_prefix(todo)
    IN  ExtendAll(SortedSet(DOMAIN groups), groups)

\* ordered_keys[:limit * batch_size] when a limit is given.
ApplyLimit(keys, limit, batch_size) ==
    IF limit # 0 THEN Slice(keys, 0, limit * batch_size) ELSE keys

\* The slice with its end one too near: ordered_keys[batch_start:batch_start + batch_size - 1].
BatchAtShort(keys, batch_start, batch_size) ==
    Slice(keys, batch_start, batch_start + batch_size - 1)

\* The slice with its end one too far: ordered_keys[batch_start:batch_start + batch_size + 1].
BatchAtOverlap(keys, batch_start, batch_size) ==
    Slice(keys, batch_start, batch_start + batch_size + 1)

\* The batch that starts at batch_start: ordered_keys[batch_start:batch_start + batch_size].
BatchAt(keys, batch_start, batch_size) ==
    Slice(keys, batch_start, batch_start + batch_size)

\* The batches of "for batch_idx in range(0, len(ordered_keys), batch_size)".
RECURSIVE BatchesFrom(_, _, _)
BatchesFrom(keys, batch_start, batch_size) ==
    IF batch_start >= Len(keys) THEN <<>>
    ELSE <<BatchAt(keys, batch_start, batch_size)>>
            \o BatchesFrom(keys, batch_start + batch_size, batch_size)

(* ------------------------------------------------------- oracle replies *)

\* JSON values of a reply, tagged with their type.
JStr(s) == [type |-> "str", str |-> s, list |-> <<>>, dict |-> NoFields]
JList(xs) == [type |-> "list", str |-> "", list |-> xs, dict |-> NoFields]
JDict(fields) == [type |-> "dict", str |-> "", list |-> <<>>, dict |-> fields]

\* bool(value) of a JSON string or list.
JTruthy(j) == IF j.type = "list" THEN j.list # <<>> ELSE j.str # ""

\* entry.get(f) is truthy.
EntryHas(entry, f) == f \in DOMAIN entry.dict /\ JTruthy(entry.dict[f])

\* The entries replies are built from.
EntryGood ==
    JDict([description |-> JStr("grey stone wall"),
           tags |-> JList(<<"stone", "damaged">>), tile_type |-> JStr("wall")])
EntryTypeInTags ==
    JDict([description |-> JStr("wooden door"),
           tags |-> JList(<<"door", "wood">>), tile_type |-> JStr("door")])
EntryOnlyTypeTag ==
    JDict([description |-> JStr("wooden door"),
           tags |-> JList(<<"door">>), tile_type |-> JStr("door")])
EntryTypeTwice ==
    JDict([description |-> JStr("wooden door"),
           tags |-> JList(<<"door", "wood", "door">>), tile_type |-> JStr("door")])
EntryPartial ==
    JDict([description |-> JStr(""), tags |-> JStr("stone"),
           tile_type |-> JStr("wall")])
EntryNotDict == JStr("sorry")

\* An oracle that answers as asked or with the tile type as the only tag,
\* and never with more entries than sprites.
PlainOracle == [entries |-> {EntryGood, EntryOnlyTypeTag}, excess |-> {}]

\* An oracle that also answers in the other shapes, and with one entry more
\* than sprites.
RichOracle ==
    [entries |-> {EntryGood, EntryTypeInTags, EntryOnlyTypeTag, EntryTypeTwice,
                  EntryPartial, EntryNotDict},
     excess |-> {EntryGood}]

\* The arrays the oracle may answer a request for n sprites with: up to n
\* entries, or n entries and one in excess.
Replies(oracle, n) ==
    UNION { [1..m -> oracle.entries] : m \in 0..n }
        \cup { r \o <<x>> : r \in [1..n -> oracle.entries], x \in oracle.excess }

(* ---------------------------------------------------------------- merge *)

\* The merge of one entry with a description that is assigned whenever the
\* entry has the key, empty or not.
MergeEntryClearing(info, entry) ==
    LET d == IF "description" \in DOMAIN entry.dict
             THEN Put(info, "description", entry.dict.description.str) ELSE info
        g == IF EntryHas(entry, "tags") /\ entry.dict.tags.type = "list"
             THEN Put(d, "tags", entry.dict.tags.list) ELSE d
        t == IF EntryHas(entry, "tile_type")
             THEN Put(g, "tile_type", entry.dict.tile_type.str) ELSE g
    IN  IF Truthy(t, "tile_type") /\ "tags" \in DOMAIN t
           /\ t.tile_type \in Range(t.tags)
        THEN Put(t, "tags", RemoveFirst(t.tags, t.tile_type))
        ELSE t

\* The merge of one entry without the assignment of the tile type.
MergeEntryUntyped(info, entry) ==
    LET d == IF EntryHas(entry, "description")
             THEN Put(info, "description", entry.dict.description.str) ELSE info
    IN  IF EntryHas(entry, "tags") /\ entry.dict.tags.type = "list"
        THEN Put(d, "tags", entry.dict.tags.list) ELSE d

\* Lines 776-787 for one sprite and its entry.
MergeEntry(info, entry) ==
    LET d == IF EntryHas(entry, "description")
             THEN Put(info, "description", entry.dict.description.str) ELSE info
        g == IF EntryHas(entry, "tags") /\ entry.dict.tags.type = "list"
             THEN Put(d, "tags", entry.dict.tags.list) ELSE d
        t == IF EntryHas(entry, "tile_type")
             THEN Put(g, "tile_type", entry.dict.tile_type.str) ELSE g
    IN  \* tt = sprites[key].get("tile_type"); tags = sprites[key].get("tags", [])
        IF Truthy(t, "tile_type") /\ "tags" \in DOMAIN t
           /\ t.tile_type \in Range(t.tags)
        THEN Put(t, "tags", RemoveFirst(t.tags, t.tile_type))
        ELSE t

\* The loop with a short reply padded by its last entry instead of "break".
RECURSIVE MergeFromPadded(_, _, _, _)
MergeFromPadded(sprites, keys, entries, i) ==
    IF i > Len(keys) \/ entries = <<>> THEN sprites
    ELSE LET e == entries[Min(i, Len(entries))]
         IN  IF e.type # "dict"
             THEN MergeFromPadded(sprites, keys, entries, i + 1)
             ELSE MergeFromPadded([sprites EXCEPT ![keys[i]] = MergeEntry(@, e)],
                                  keys, entries, i + 1)

\* The loop over the dict entries only: an entry that is not a dict is dropped
\* from the reply first, so the entries after it move up by one key.
RECURSIVE MergeFromShifted(_, _, _, _)
MergeFromShifted(sprites, keys, entries, i) ==
    LET es == SelectSeq(entries, LAMBDA e : e.type = "dict")
    IN  IF i > Len(keys) \/ i > Len(es) THEN sprites
        ELSE MergeFromShifted([sprites EXCEPT ![keys[i]] = MergeEntry(@, es[i])],
                              keys, es, i + 1)

\* for i, key in enumerate(valid_keys): the iterations from the i-th on
\* (i counts from 1 here).
RECURSIVE MergeFrom(_, _, _, _)
MergeFrom(sprites, keys, entries, i) ==
    IF i > Len(keys) THEN sprites
    ELSE IF i > Len(entries) THEN sprites
    ELSE IF entries[i].type # "dict"
         THEN MergeFrom(sprites, keys, entries, i + 1)
    ELSE MergeFrom([sprites EXCEPT ![keys[i]] = MergeEntry(@, entries[i])],
                   keys, entries, i + 1)


(* ---------------------------------------------------------------- state *)

VARIABLES
    atlas_name,     \* the registry entry the tool is run on
    pool,           \* the oracle: what it builds its replies from
    disk,           \* path -> file
    pc,             \* where the invocation stands
    args,           \* batch_size, dry_run, limit of the invocation
    data,           \* the index document in memory
    ordered_keys,   \* the plan: the keys to enrich, in batch order
    batch_start,    \* loop variable of the batch loop
    valid_keys,     \* the keys of the current request
    attempt,        \* loop variable of the retry loop
    enrichments,    \* the parsed array of the current batch
    outcome,        \* how the invocation ended
    printed,        \* the batches a dry run listed
    \* history, read by the properties only
    rerun,          \* whether this is the invocation after the first
    loaded,         \* the document as the invocation loaded it
    disk0,          \* the files as the invocation found them
    calls,          \* oracle invocations of this invocation
    batches,        \* the batches the loop has started, in order
    pre,            \* the sprites before the current batch was merged
    unmatched,      \* requested keys the reply had no entry for (this run)
    prev_unmatched, \* the same, of the previous invocation
    peer,           \* a second enrichment run on the same files
    tagger,         \* the interactive tagger: TaggerApp and its form
    merged,         \* the requests whose reply was merged, and the reply (this run)
    committed,      \* keys enriched by the checkpoints of a killed invocation
    planned,        \* the arguments and the listing of a preceding dry run
    issues,         \* check_atlas: the issues collected
    fixes_applied,  \* check_atlas: the number of fixes made
    \* verify_atlas
    backups,        \* the backup copies made so far, oldest first
    enriched_keys,  \* the keys to verify, in batch order
    fixes,          \* the parsed array of the current verify batch
    result,         \* the local "result": the last completed subprocess
    log_file        \* what was written to the verify log, in order

vars == <<atlas_name, pool, rerun, disk, pc, args, data, ordered_keys, batch_start,
          valid_keys, attempt, enrichments, outcome, printed, loaded,
          disk0, calls, batches, pre, unmatched, prev_unmatched, tagger, peer, merged,
          backups, enriched_keys, fixes, result, log_file, committed,
          planned, issues, fixes_applied>>

\* What no step of process_atlas changes: the locals of verify_atlas, its
\* log, the backups, and the records of a kill and of a dry run.
other_vars == <<backups, enriched_keys, fixes, result, log_file, committed,
                planned, issues, fixes_applied>>


\* "result" before its first assignment; once assigned it is identified by
\* the batch and the attempt whose subprocess it is.
Unbound == [bound |-> FALSE]

\* max_retries = 3
max_retries == 3

NoData == [sprite_order |-> <<>>, sprites |-> <<>>]

\* No second run has started.
NoPeer == [pc |-> "idle"]

\* The tiles the tagger visits: tile_order, as indices 0 .. MaxTiles - 1.
MaxTiles == 3

\* The text of an entry of the form: empty, typed by the user, or generated;
\* "for" is the tile it was typed or generated for.
EmptyEntry == [by |-> "", for |-> -1]
UserEntry(tile) == [by |-> "user", for |-> tile]
AiEntry(tile) == [by |-> "ai", for |-> tile]

\* TaggerApp.__init__: the first tile is current, nothing is saved, the
\* form is empty, the main window has the focus, no generation is in flight
\* (request is the tile of the generation in flight, -1 when there is none).
TaggerInit ==
    [current_idx |-> 0, covered_tiles |-> {}, sprites |-> <<>>,
     name_entry |-> EmptyEntry, desc_entry |-> EmptyEntry,
     focus |-> "root", ai_generating |-> FALSE, request |-> -1]
NoArgs == [batch_size |-> 1, dry_run |-> FALSE, limit |-> 0]

\* No dry run came before.
NoPlan == [args |-> NoArgs, printed |-> <<>>]

Config == ATLASES[atlas_name]

\* The files an invocation may find.
Setups(c) ==
    LET none == [p \in Paths |-> NoFile]
        u == ATLASES.utumno
        k == ATLASES.kenney
    IN  { [atlas |-> "utumno",
           disk |-> [none EXCEPT ![u.index] = File(c, "compact")]],
          [atlas |-> "utumno",
           disk |-> [none EXCEPT ![u.output] = File(c, "indent2")]],
          [atlas |-> "kenney",
           disk |-> [none EXCEPT ![k.index] = File(c, "compact")]] }

Idle ==
    /\ pc = "idle"
    /\ args = NoArgs
    /\ data = NoData
    /\ ordered_keys = <<>>
    /\ batch_start = 0
    /\ valid_keys = <<>>
    /\ attempt = 0
    /\ enrichments = <<>>
    /\ outcome = ""
    /\ printed = <<>>
    /\ loaded = NoData
    /\ calls = 0
    /\ batches = <<>>
    /\ pre = <<>>
    /\ unmatched = {}
    /\ merged = <<>>

InitWith(catalogs, oracle) ==
    /\ \E c \in catalogs : \E s \in Setups(c) :
          /\ atlas_name = s.atlas
          /\ disk = s.disk
          /\ disk0 = s.disk
    /\ pool = oracle
    /\ rerun = FALSE
    /\ prev_unmatched = {}
    /\ peer = NoPeer
    /\ tagger = TaggerInit
    /\ Idle
    /\ backups = <<>>
    /\ enriched_keys = <<>>
    /\ fixes = <<>>
    /\ result = Unbound
    /\ log_file = <<>>
    /\ committed = {}
    /\ planned = NoPlan
    /\ issues = <<>>
    /\ fixes_applied = 0

\* An invocation on a catalog of up to MaxSprites sprites.
Init == InitWith(Catalogs(MaxSprites), PlainOracle)

\* An invocation on a small catalog, with an oracle that answers in every shape.
InitMerge == InitWith(Catalogs(MaxFewSprites), RichOracle)

\* An invocation on a small catalog, and the invocation after it.
InitRerun == InitWith(Catalogs(MaxFewSprites), PlainOracle)

(* -------------------------------------------------------- process_atlas *)

\* "return": the invocation is over.
Return(how) ==
    /\ pc' = "done"
    /\ outcome' = how

\* The next iteration of the batch loop, or the end of the loop.
NextBatch ==
    /\ batch_start' = batch_start + args.batch_size
    /\ valid_keys' = <<>>
    /\ attempt' = 0
    /\ enrichments' = <<>>
    /\ pre' = <<>>
    /\ IF batch_start + args.batch_size < Len(ordered_keys)
       THEN pc' = "collect" /\ outcome' = outcome
       ELSE Return("completed")

\* A variant whose dry run lists the batches before the limit is applied.
StartListsAll ==
    /\ pc = "idle"
    /\ disk0' = disk
    /\ \E batch_size \in 1..MaxBatch, limit \in {0, MaxLimit},
          dry_run \in BOOLEAN, claude \in BOOLEAN :
        /\ args' = [batch_size |-> batch_size, dry_run |-> dry_run, limit |-> limit]
        /\ IF ~disk[Config.index].exists
           THEN /\ Return("no_index")
                /\ UNCHANGED <<data, loaded, ordered_keys, printed>>
           ELSE IF Unloadable(IF disk[Config.output].exists
                              THEN disk[Config.output] ELSE disk[Config.index])
           THEN /\ Return("load_error")
                /\ UNCHANGED <<data, loaded, ordered_keys, printed>>
           ELSE LET doc == IF disk[Config.output].exists
                           THEN load_index(disk[Config.output])
                           ELSE load_index(disk[Config.index])
                    todo == Todo(doc)
                    plan == ApplyLimit(OrderedKeys(todo), limit, batch_size)
                IN  /\ data' = doc
                    /\ loaded' = doc
                    /\ IF todo = <<>>
                       THEN /\ Return("all_enriched")
                            /\ UNCHANGED <<ordered_keys, printed>>
                       ELSE /\ ordered_keys' = plan
                            /\ IF dry_run
                               THEN /\ printed' = BatchesFrom(OrderedKeys(todo), 0, batch_size)
                                    /\ Return("dry_run")
                               ELSE /\ printed' = printed
                                    /\ IF ~claude
                                       THEN Return("no_claude")
                                       ELSE pc' = "collect" /\ outcome' = outcome
    /\ UNCHANGED <<atlas_name, pool, rerun, disk, batch_start, valid_keys, attempt,
                   enrichments, calls, batches, pre, unmatched, prev_unmatched, tagger, peer, merged>>
    /\ UNCHANGED other_vars

\* Lines 582-651: load, plan, and the checks before the batch loop.
Start ==
    /\ pc = "idle"
    /\ disk0' = disk
    /\ \E batch_size \in 1..MaxBatch, limit \in {0, MaxLimit},
          dry_run \in BOOLEAN, claude \in BOOLEAN :
        /\ args' = [batch_size |-> batch_size, dry_run |-> dry_run, limit |-> limit]
        /\ IF ~disk[Config.index].exists
           THEN /\ Return("no_index")
                /\ UNCHANGED <<data, loaded, ordered_keys, printed>>
           ELSE IF Unloadable(IF disk[Config.output].exists
                              THEN disk[Config.output] ELSE disk[Config.index])
           THEN /\ Return("load_error")
                /\ UNCHANGED <<data, loaded, ordered_keys, printed>>
           ELSE LET doc == IF disk[Config.output].exists
                           THEN load_index(disk[Config.output])
                           ELSE load_index(disk[Config.index])
                    todo == Todo(doc)
                    plan == ApplyLimit(OrderedKeys(todo), limit, batch_size)
                IN  /\ data' = doc
                    /\ loaded' = doc
                    /\ IF todo = <<>>
                       THEN /\ Return("all_enriched")
                            /\ UNCHANGED <<ordered_keys, printed>>
                       ELSE /\ ordered_keys' = plan
                            /\ IF dry_run
                               THEN /\ printed' = BatchesFrom(plan, 0, batch_size)
                                    /\ Return("dry_run")
                               ELSE /\ printed' = printed
                                    /\ IF ~claude
                                       THEN Return("no_claude")
                                       ELSE pc' = "collect" /\ outcome' = outcome
    /\ UNCHANGED <<atlas_name, pool, rerun, disk, batch_start, valid_keys, attempt,
                   enrichments, calls, batches, pre, unmatched, prev_unmatched, tagger, peer, merged>>
    /\ UNCHANGED other_vars

\* The subsequences of s: the keys whose image could be loaded.
SubSeqs(s) ==
    { SelectSeq(s, LAMBDA k : k \in S) : S \in SUBSET Range(s) }

\* Lines 655-683: the head of a batch iteration, the images of its sprites.
CollectImages ==
    /\ pc = "collect"
    /\ LET batch_keys == BatchAt(ordered_keys, batch_start, args.batch_size)
       IN  /\ batches' = Append(batches, batch_keys)
           /\ \E valid \in SubSeqs(batch_keys) :
                IF valid = <<>>
                THEN NextBatch
                ELSE /\ valid_keys' = valid
                     /\ attempt' = 0
                     /\ enrichments' = <<>>
                     /\ pc' = "oracle"
                     /\ UNCHANGED <<batch_start, outcome, pre>>
    /\ UNCHANGED <<atlas_name, pool, rerun, disk, args, data, ordered_keys, printed,
                   loaded, disk0, calls, unmatched, prev_unmatched, tagger, peer, merged>>
    /\ UNCHANGED other_vars

FailKinds == {"timeout", "subprocess_error", "non_zero_exit", "unparseable"}

\* A failed attempt without the retry loop: the batch is skipped at once.
OracleFailsOnce ==
    /\ pc = "oracle"
    /\ \E kind \in FailKinds :
        /\ calls' = calls + 1
        /\ NextBatch
    /\ UNCHANGED <<atlas_name, pool, rerun, disk, args, data, ordered_keys,
                   printed, loaded, disk0, batches,
                   unmatched, prev_unmatched, tagger, peer, merged>>
    /\ UNCHANGED other_vars

\* The retry loop with a checkpoint written when the batch is given up.
OracleFailsThenSaves ==
    /\ pc = "oracle"
    /\ \E kind \in FailKinds :
        /\ calls' = calls + 1
        /\ IF attempt + 1 < max_retries
           THEN /\ attempt' = attempt + 1
                /\ UNCHANGED <<pc, batch_start, outcome, valid_keys,
                               enrichments, pre, disk>>
           ELSE /\ disk' = [disk EXCEPT ![Config.output] = save_index(data)]
                /\ NextBatch
    /\ UNCHANGED <<atlas_name, pool, rerun, args, data, ordered_keys,
                   printed, loaded, disk0, batches,
                   unmatched, prev_unmatched, tagger, peer, merged>>
    /\ UNCHANGED other_vars

\* The retry loop with a return when the batch is given up.
OracleFailsAborts ==
    /\ pc = "oracle"
    /\ \E kind \in FailKinds :
        /\ calls' = calls + 1
        /\ IF attempt + 1 < max_retries
           THEN /\ attempt' = attempt + 1
                /\ UNCHANGED <<pc, batch_start, outcome, valid_keys,
                               enrichments, pre>>
           ELSE /\ Return("aborted")
                /\ UNCHANGED <<batch_start, valid_keys, enrichments, pre, attempt>>
    /\ UNCHANGED <<atlas_name, pool, rerun, disk, args, data, ordered_keys,
                   printed, loaded, disk0, batches,
                   unmatched, prev_unmatched, tagger, peer, merged>>
    /\ UNCHANGED other_vars

\* The retry loop with one attempt more.
OracleFailsOnceMore ==
    /\ pc = "oracle"
    /\ \E kind \in FailKinds :
        /\ calls' = calls + 1
        /\ IF attempt < max_retries
           THEN /\ attempt' = attempt + 1
                /\ UNCHANGED <<pc, batch_start, outcome, valid_keys,
                               enrichments, pre>>
           ELSE NextBatch
    /\ UNCHANGED <<atlas_name, pool, rerun, disk, args, data, ordered_keys,
                   printed, loaded, disk0, batches,
                   unmatched, prev_unmatched, tagger, peer, merged>>
    /\ UNCHANGED other_vars

\* Lines 728-759, 761-763: an attempt that yields no array; after the last
\* one the batch is skipped.
OracleFails ==
    /\ pc = "oracle"
    /\ \E kind \in FailKinds :
        /\ calls' = calls + 1
        /\ IF attempt + 1 < max_retries
           THEN /\ attempt' = attempt + 1
                /\ UNCHANGED <<pc, batch_start, outcome, valid_keys,
                               enrichments, pre>>
           ELSE NextBatch
    /\ UNCHANGED <<atlas_name, pool, rerun, disk, args, data, ordered_keys,
                   printed, loaded, disk0, batches,
                   unmatched, prev_unmatched, tagger, peer, merged>>
    /\ UNCHANGED other_vars

\* Lines 728-758: an attempt whose output parses to an array.
OracleReplies ==
    /\ pc = "oracle"
    /\ \E reply \in Replies(pool, Len(valid_keys)) :
        /\ calls' = calls + 1
        /\ enrichments' = reply
        /\ pc' = "merge"
    /\ UNCHANGED <<atlas_name, pool, rerun, disk, args, data, ordered_keys, batch_start,
                   valid_keys, attempt, outcome, printed, loaded, disk0,
                   batches, pre, unmatched, prev_unmatched, tagger, peer, merged>>
    /\ UNCHANGED other_vars

\* Lines 765-790: the reply is merged into the sprites by position.
MergeBatch ==
    /\ pc = "merge"
    /\ pre' = data.sprites
    /\ data' = [data EXCEPT !.sprites = MergeFrom(@, valid_keys, enrichments, 1)]
    /\ unmatched' = unmatched \cup
                      {valid_keys[i] : i \in (Len(enrichments) + 1)..Len(valid_keys)}
    /\ merged' = Append(merged, [keys |-> valid_keys, entries |-> enrichments])
    /\ pc' = "save"
    /\ UNCHANGED <<atlas_name, pool, rerun, disk, args, ordered_keys, batch_start, valid_keys,
                   attempt, enrichments, outcome, printed, loaded, disk0,
                   calls, batches, prev_unmatched, tagger, peer>>
    /\ UNCHANGED other_vars

\* Lines 792-796: the checkpoint, then the next batch.
\* A variant that keeps the merged batches in memory and writes the catalog
\* once, after the last batch.
SaveCheckpointLater ==
    /\ pc = "save"
    /\ disk' = IF batch_start + args.batch_size < Len(ordered_keys)
               THEN disk
               ELSE [disk EXCEPT ![Config.output] = save_index(data)]
    /\ NextBatch
    /\ UNCHANGED <<atlas_name, pool, rerun, args, data, ordered_keys,
                   printed, loaded, disk0, calls, batches,
                   unmatched, prev_unmatched, tagger, peer, merged>>
    /\ UNCHANGED other_vars

\* A checkpoint that reads the output again and writes the sprites of the
\* current request into what it finds there.
SaveCheckpointReloading ==
    /\ pc = "save"
    /\ disk' = [disk EXCEPT ![Config.output] =
                   IF disk[Config.output].exists /\ ~Unloadable(disk[Config.output])
                   THEN save_index([load_index(disk[Config.output]) EXCEPT !.sprites =
                           [k \in DOMAIN @ |->
                               IF k \in Range(valid_keys) THEN data.sprites[k] ELSE @[k]]])
                   ELSE save_index(data)]
    /\ NextBatch
    /\ UNCHANGED <<atlas_name, pool, rerun, args, data, ordered_keys,
                   printed, loaded, disk0, calls, batches,
                   unmatched, prev_unmatched, tagger, peer, merged>>
    /\ UNCHANGED other_vars

\* Lines 792-793: save_index(data, output_path) after every batch.
SaveCheckpoint ==
    /\ pc = "save"
    /\ disk' = [disk EXCEPT ![Config.output] = save_index(data)]
    /\ NextBatch
    /\ UNCHANGED <<atlas_name, pool, rerun, args, data, ordered_keys,
                   printed, loaded, disk0, calls, batches,
                   unmatched, prev_unmatched, tagger, peer, merged>>
    /\ UNCHANGED other_vars

\* The tool is invoked once more, on the files the first invocation left.
NextRun ==
    /\ pc = "done"
    /\ ~rerun
    /\ rerun' = TRUE
    /\ prev_unmatched' = unmatched
    /\ tagger' = tagger
    /\ peer' = peer
    /\ disk0' = disk
    /\ pc' = "idle"
    /\ args' = NoArgs
    /\ data' = NoData
    /\ ordered_keys' = <<>>
    /\ batch_start' = 0
    /\ valid_keys' = <<>>
    /\ attempt' = 0
    /\ enrichments' = <<>>
    /\ outcome' = ""
    /\ printed' = <<>>
    /\ loaded' = NoData
    /\ calls' = 0
    /\ batches' = <<>>
    /\ pre' = <<>>
    /\ unmatched' = {}
    /\ merged' = <<>>
    /\ UNCHANGED <<atlas_name, pool, disk>>
    /\ UNCHANGED other_vars

\* One invocation.
NextOnce ==
    \/ Start
    \/ CollectImages
    \/ OracleFails
    \/ OracleReplies
    \/ MergeBatch
    \/ SaveCheckpoint

\* An invocation and the one after it.
NextRerun ==
    \/ NextOnce
    \/ NextRun

Spec == Init /\ [][NextOnce]_vars

SpecMerge == InitMerge /\ [][NextOnce]_vars

SpecRerun == InitRerun /\ [][NextRerun]_vars

(* -------------------------------------------- two runs on the same files *)

\* Lines 589-632 in a second process: it loads the catalog the way every
\* run does and plans its batches.
PeerStart ==
    /\ peer.pc = "idle"
    /\ disk[Config.index].exists
    /\ ~Unloadable(IF disk[Config.output].exists
                   THEN disk[Config.output] ELSE disk[Config.index])
    /\ \E batch_size \in {1, MaxBatch} :
        LET doc == IF disk[Config.output].exists
                   THEN load_index(disk[Config.output])
                   ELSE load_index(disk[Config.index])
            plan == OrderedKeys(Todo(doc))
        IN  peer' = [pc |-> IF plan = <<>> THEN "done" ELSE "run",
                     data |-> doc,
                     ordered_keys |-> plan,
                     batch_start |-> 0,
                     batch_size |-> batch_size,
                     persisted |-> {}]
    /\ UNCHANGED <<atlas_name, pool, rerun, disk, pc, args, data, ordered_keys,
                   batch_start, valid_keys, attempt, enrichments, outcome, printed,
                   loaded, disk0, calls, batches, pre, unmatched, prev_unmatched, tagger,
                   merged>>
    /\ UNCHANGED other_vars

\* Lines 655-793 in the second process, one iteration of its batch loop:
\* the batch is given up, or it is answered (here with the same entry for
\* every sprite), merged into the process's own copy of the catalog and that
\* copy is saved to the output.
PeerBatch ==
    /\ peer.pc = "run"
    /\ LET batch == BatchAt(peer.ordered_keys, peer.batch_start, peer.batch_size)
           next == peer.batch_start + peer.batch_size
           after == IF next < Len(peer.ordered_keys) THEN "run" ELSE "done"
       IN  \/ /\ peer' = [peer EXCEPT !.batch_start = next, !.pc = after]
              /\ disk' = disk
           \/ \E entry \in pool.entries :
                LET reply == [i \in 1..Len(batch) |-> entry]
                    merged_data ==
                        [peer.data EXCEPT !.sprites = MergeFrom(@, batch, reply, 1)]
                IN  /\ peer' = [peer EXCEPT
                                  !.batch_start = next,
                                  !.pc = after,
                                  !.data = merged_data,
                                  !.persisted = @ \cup
                                      {k \in Range(batch) :
                                          is_enriched(merged_data.sprites[k])}]
                    /\ disk' = [disk EXCEPT ![Config.output] = save_index(merged_data)]
    /\ UNCHANGED <<atlas_name, pool, rerun, pc, args, data, ordered_keys,
                   batch_start, valid_keys, attempt, enrichments, outcome, printed,
                   loaded, disk0, calls, batches, pre, unmatched, prev_unmatched, tagger,
                   merged>>
    /\ UNCHANGED other_vars

\* Two enrichment runs on the same files, their steps interleaved.
NextTwo ==
    \/ NextOnce
    \/ PeerStart
    \/ PeerBatch

(* ------------------------------------------------- the interactive tagger *)

\* Every variable but the tagger's.
tool_vars ==
    <<atlas_name, pool, rerun, disk, pc, args, data, ordered_keys, batch_start,
      valid_keys, attempt, enrichments, outcome, printed, loaded, disk0, calls,
      batches, pre, unmatched, prev_unmatched, peer, merged, other_vars>>

\* _current_tile: the tile at current_idx, None (-1) past the last one.
CurrentTile == IF tagger.current_idx < MaxTiles THEN tagger.current_idx ELSE -1

\* _advance_to_next_unvisited: the next index whose tile is in no sprite,
\* len(tile_order) when there is none.
NextUnvisited(idx, covered) ==
    LET open == { i \in (idx + 1)..(MaxTiles - 1) : i \notin covered }
    IN  IF open = {} THEN MaxTiles
        ELSE CHOOSE i \in open : \A j \in open : i <= j

\* The form after _skip_tile or the reset at the end of _save_and_next.
Advanced(t, covered) ==
    [t EXCEPT !.name_entry = EmptyEntry, !.desc_entry = EmptyEntry,
              !.current_idx = NextUnvisited(t.current_idx, covered),
              !.focus = "root"]

\* Lines 972-1010, Tab in the main window: _generate_ai starts a generation
\* for the current tile in a background thread, unless there is no current
\* tile or one is in flight.
GenerateAi ==
    /\ tagger.focus = "root"
    /\ CurrentTile # -1
    /\ ~tagger.ai_generating
    /\ tagger' = [tagger EXCEPT !.ai_generating = TRUE, !.request = CurrentTile]
    /\ UNCHANGED tool_vars

\* Lines 1005-1030: the thread's result, generated from the tags, images and
\* texts of the tile it was requested for, is handed to the main loop, and
\* _on_ai_result puts it into the form.
OnAiResult ==
    /\ tagger.request # -1
    /\ tagger' = [tagger EXCEPT !.ai_generating = FALSE, !.request = -1,
                                !.name_entry = AiEntry(tagger.request),
                                !.desc_entry = AiEntry(tagger.request),
                                !.focus = "name"]
    /\ UNCHANGED tool_vars

\* Lines 1032-1119: _save_and_next; the sprite is kept by its tile here, the
\* search for a unique name is left out.
SaveAndNextOf(t) ==
    IF t.current_idx >= MaxTiles THEN t
    ELSE IF t.name_entry.by = "" THEN [t EXCEPT !.focus = "name"]
    ELSE LET tile == t.current_idx
             covered == t.covered_tiles \cup {tile}
         IN  Advanced([t EXCEPT !.sprites = (tile :> [name |-> t.name_entry,
                                                     description |-> t.desc_entry]) @@ @,
                                !.covered_tiles = covered],
                      covered)

\* Return in the main window (line 891).
SaveAndNext ==
    /\ tagger.focus = "root"
    /\ tagger' = SaveAndNextOf(tagger)
    /\ tagger' # tagger
    /\ UNCHANGED tool_vars

\* Lines 934-940: Return in the description entry.
OnDescEnter ==
    /\ tagger.focus = "desc"
    /\ tagger' = [SaveAndNextOf(tagger) EXCEPT !.focus = "root"]
    /\ UNCHANGED tool_vars

\* Lines 924-932: Return or Tab in the name entry.
OnNameEnter ==
    /\ tagger.focus = "name"
    /\ tagger' = [tagger EXCEPT !.focus = "desc"]
    /\ UNCHANGED tool_vars

\* The user clicks into the name entry and types a name for the tile shown.
TypeName ==
    /\ CurrentTile # -1
    /\ tagger' = [tagger EXCEPT !.name_entry = UserEntry(CurrentTile),
                                !.focus = "name"]
    /\ tagger' # tagger
    /\ UNCHANGED tool_vars

\* The user clicks on the tile view: back to the main window.
FocusRoot ==
    /\ tagger.focus # "root"
    /\ tagger' = [tagger EXCEPT !.focus = "root"]
    /\ UNCHANGED tool_vars

\* Lines 1121-1132, space in the main window: _skip_tile.
SkipTile ==
    /\ tagger.focus = "root"
    /\ tagger' = Advanced(tagger, tagger.covered_tiles)
    /\ tagger' # tagger
    /\ UNCHANGED tool_vars

\* Lines 1134-1161, BackSpace in the main window: _go_back to the tile
\* before, whose sprite, if it has one, is loaded into the form.
GoBack ==
    /\ tagger.focus = "root"
    /\ tagger.current_idx >= 1
    /\ LET tile == tagger.current_idx - 1
           saved == tile \in tagger.covered_tiles /\ tile \in DOMAIN tagger.sprites
       IN  tagger' = [tagger EXCEPT
                        !.current_idx = tile,
                        !.name_entry = IF saved THEN tagger.sprites[tile].name
                                       ELSE EmptyEntry,
                        !.desc_entry = IF saved THEN tagger.sprites[tile].description
                                       ELSE EmptyEntry]
    /\ UNCHANGED tool_vars

\* The key and entry events of the tagger, and the arrival of a result.
NextTagger ==
    \/ GenerateAi
    \/ OnAiResult
    \/ SaveAndNext
    \/ OnDescEnter
    \/ OnNameEnter
    \/ TypeName
    \/ FocusRoot
    \/ SkipTile
    \/ GoBack

\* The sprites as the last completed checkpoint of this invocation wrote
\* them: MergeBatch has changed data by the time pc is "save".
LastCheckpoint == IF pc = "save" THEN pre ELSE data.sprites

\* The keys that the completed checkpoints of this invocation enriched.
CommittedKeys ==
    {k \in DOMAIN LastCheckpoint :
        /\ is_enriched(LastCheckpoint[k])
        /\ ~is_enriched(loaded.sprites[k])}

\* The process dies (SIGKILL, power loss) between two steps of the batch loop.
Kill ==
    /\ pc \in {"collect", "oracle", "merge", "save"}
    /\ ~rerun
    /\ pc' = "done"
    /\ outcome' = "killed"
    /\ committed' = CommittedKeys
    /\ UNCHANGED <<atlas_name, pool, rerun, disk, args, data, ordered_keys,
                   batch_start, valid_keys, attempt, enrichments, printed,
                   loaded, disk0, calls, batches, pre, unmatched,
                   prev_unmatched, tagger, peer, merged>>
    /\ UNCHANGED <<backups, enriched_keys, fixes, result, log_file, planned,
                   issues, fixes_applied>>

\* The process dies inside save_index, after open(path, "w") has truncated
\* the file and before json.dump has written the last byte.
KillInSave ==
    /\ pc = "save"
    /\ ~rerun
    /\ disk' = [disk EXCEPT ![Config.output] = TornFile]
    /\ pc' = "done"
    /\ outcome' = "killed"
    /\ committed' = CommittedKeys
    /\ UNCHANGED <<atlas_name, pool, rerun, args, data, ordered_keys,
                   batch_start, valid_keys, attempt, enrichments, printed,
                   loaded, disk0, calls, batches, pre, unmatched,
                   prev_unmatched, tagger, peer, merged>>
    /\ UNCHANGED <<backups, enriched_keys, fixes, result, log_file, planned,
                   issues, fixes_applied>>

\* An invocation that may be killed, and the one after it.
NextKill ==
    \/ NextOnce
    \/ Kill
    \/ KillInSave
    \/ NextRun

SpecKill == InitRerun /\ [][NextKill]_vars

\* The tool is invoked once more after a dry run; what the dry run was given
\* and what it listed is kept for comparison.
AfterDryRun ==
    /\ pc = "done"
    /\ outcome = "dry_run"
    /\ ~rerun
    /\ rerun' = TRUE
    /\ planned' = [args |-> args, printed |-> printed]
    /\ prev_unmatched' = unmatched
    /\ tagger' = tagger
    /\ peer' = peer
    /\ disk0' = disk
    /\ pc' = "idle"
    /\ args' = NoArgs
    /\ data' = NoData
    /\ ordered_keys' = <<>>
    /\ batch_start' = 0
    /\ valid_keys' = <<>>
    /\ attempt' = 0
    /\ enrichments' = <<>>
    /\ outcome' = ""
    /\ printed' = <<>>
    /\ loaded' = NoData
    /\ calls' = 0
    /\ batches' = <<>>
    /\ pre' = <<>>
    /\ unmatched' = {}
    /\ merged' = <<>>
    /\ UNCHANGED <<atlas_name, pool, disk>>
    /\ UNCHANGED <<backups, enriched_keys, fixes, result, log_file, committed,
                   issues, fixes_applied>>

\* An invocation, and the one after it when the first was a dry run.
NextDry ==
    \/ NextOnce
    \/ AfterDryRun

SpecDry == InitRerun /\ [][NextDry]_vars

(* --------------------------------------------------------- verify_atlas *)

\* sprites[k].get("description") and sprites[k].get("tile_type"): a sprite
\* that is verified (its tags may be empty).
Verifiable(info) == Truthy(info, "description") /\ Truthy(info, "tile_type")

\* enriched_keys: the keys to verify, in dict order, then enriched_keys.sort().
VerifyKeys(doc) ==
    Sorted(SelectSeq(doc.sprite_order, LAMBDA k : Verifiable(doc.sprites[k])))

\* The sprites of a tagged output: enriched, with tags emptied, without
\* the tags key, and not enriched at all.
TaggedStates ==
    { [description |-> "a stone wall", tags |-> <<"stone", "wood">>,
       tile_type |-> "wall"],
      [description |-> "an old door", tags |-> <<>>, tile_type |-> "door"],
      [description |-> "an old door", tile_type |-> "door"],
      NoFields }

\* The tagged outputs of at most n sprites: the first keys of the universe,
\* which are not in ascending order.
TaggedCatalogs(n) ==
    UNION { { Doc(order, [k \in Range(order) |-> e[k] @@ BaseInfo(IndexOfKey(k))]) :
              e \in [Range(order) -> TaggedStates] } :
            order \in {SubSeq(KeyUniverse, 1, m) : m \in 0..n} }

\* A JSON number.
JNum(n) == [type |-> "num", str |-> "", list |-> <<>>, dict |-> NoFields, num |-> n]

\* The elements of the array of a verify reply: a new description, new tags
\* and tile type (the tags being the tile type), new tags, for the sprite
\* with the 1-based index i; and an object without index.
FixDescription(i) ==
    JDict([index |-> JNum(i), description |-> JStr("a rusty iron door")])
FixTagsAndType(i) ==
    JDict([index |-> JNum(i), tags |-> JList(<<"door">>), tile_type |-> JStr("door")])
FixTags(i) ==
    JDict([index |-> JNum(i), tags |-> JList(<<"iron", "wall">>)])
FixNoIndex == JDict([description |-> JStr("a rusty iron door")])

\* What the oracle builds a verify reply from: fixes for the indexes 1 and 2
\* (no sprite in a request of one), and an object without index.
VerifyOracle ==
    [entries |-> {FixDescription(1), FixTagsAndType(1), FixTags(2), FixNoIndex},
     excess |-> {}]

\* old: description, tags and tile_type of the sprite before the fix, with
\* the defaults of .get().
OldValues(info) ==
    [description |-> IF "description" \in DOMAIN info THEN info.description ELSE "",
     tags |-> IF "tags" \in DOMAIN info THEN info.tags ELSE <<>>,
     tile_type |-> IF "tile_type" \in DOMAIN info THEN info.tile_type ELSE ""]

\* Lines 1025-1036: the fix is applied to the sprite, and the tile type
\* stripped from its tags.
VerifyApplyFix(info, fix) ==
    LET old == OldValues(info)
        d == IF EntryHas(fix, "description")
                /\ fix.dict.description.str # old.description
             THEN Put(info, "description", fix.dict.description.str) ELSE info
        g == IF EntryHas(fix, "tags") /\ fix.dict.tags.type = "list"
             THEN Put(d, "tags", fix.dict.tags.list) ELSE d
        t == IF EntryHas(fix, "tile_type")
                /\ fix.dict.tile_type.str # old.tile_type
             THEN Put(g, "tile_type", fix.dict.tile_type.str) ELSE g
    IN  IF Truthy(t, "tile_type") /\ "tags" \in DOMAIN t
           /\ t.tile_type \in Range(t.tags)
        THEN Put(t, "tags", RemoveFirst(t.tags, t.tile_type))
        ELSE t

\* Lines 1038-1044: the fields whose .get() differs from old; the .get() of
\* a missing key is None, which differs from every default.
ChangedFields(old, info) ==
    SelectSeq(<<"description", "tags", "tile_type">>,
              LAMBDA f : f \notin DOMAIN info \/ info[f] # old[f])

\* A value written to the log.
Logged(f, v) == IF f = "tags" THEN JList(v) ELSE JStr(v)

\* Lines 1048-1053: the log entry of a changed sprite.
FixEntry(key, old, info) ==
    [kind |-> "FIX", key |-> key,
     changes |-> LET fs == ChangedFields(old, info)
                 IN  [i \in DOMAIN fs |->
                        [field |-> fs[i], before |-> Logged(fs[i], old[fs[i]]),
                         after |-> Logged(fs[i], info[fs[i]])]]]

\* The fix is one the loop applies: a dict with an index of a sprite of the
\* request (lines 1013-1017).
Applies(fix, keys) ==
    /\ fix.type = "dict" /\ "index" \in DOMAIN fix.dict
    /\ fix.dict.index.num - 1 >= 0 /\ fix.dict.index.num - 1 < Len(keys)

\* for fix in fixes (lines 1012-1056), from the i-th fix on: the sprites,
\* the log, and whether sprites[key][full] raised KeyError, which ends the
\* loop and the run.
RECURSIVE ApplyFixes(_, _, _, _, _)
ApplyFixes(sprites, log, keys, fs, i) ==
    IF i > Len(fs) THEN [sprites |-> sprites, log |-> log, raised |-> FALSE]
    ELSE IF ~Applies(fs[i], keys) THEN ApplyFixes(sprites, log, keys, fs, i + 1)
    ELSE LET key == keys[fs[i].dict.index.num]
             old == OldValues(sprites[key])
             info == VerifyApplyFix(sprites[key], fs[i])
             after == [sprites EXCEPT ![key] = info]
         IN  IF ChangedFields(old, info) = <<>>
             THEN ApplyFixes(after, log, keys, fs, i + 1)
             ELSE IF \E f \in Range(ChangedFields(old, info)) : f \notin DOMAIN info
             THEN [sprites |-> after,
                   log |-> Append(log, [kind |-> "FIX_TORN", key |-> key]),
                   raised |-> TRUE]
             ELSE ApplyFixes(after, Append(log, FixEntry(key, old, info)),
                             keys, fs, i + 1)

\* A variant that copies nothing.
backup_index_skipped(copies, file) == copies

\* backup_index: a copy of the file, when there is one.
backup_index(copies, file) == IF file.exists THEN Append(copies, file) ELSE copies

\* The "finally" of verify_atlas: the total of the batches that were
\* finished when the log was as in counted.
VerifyFinally(log, counted) ==
    Append(log, [kind |-> "TOTAL",
                 fixes_total |-> Cardinality({i \in DOMAIN counted :
                                                 counted[i].kind = "FIX"})])

\* The next iteration of the verify loop with the log as given, or the end
\* of the loop and of the run.
VerifyNextBatch(log) ==
    /\ batch_start' = batch_start + args.batch_size
    /\ valid_keys' = <<>>
    /\ attempt' = 0
    /\ fixes' = <<>>
    /\ pre' = <<>>
    /\ IF batch_start + args.batch_size < Len(enriched_keys)
       THEN pc' = "v_collect" /\ outcome' = outcome /\ log_file' = log
       ELSE Return("completed") /\ log_file' = VerifyFinally(log, log)

\* A variant that copies the backup before it looks for the claude binary.
VerifyStartBackupFirst ==
    /\ pc = "idle"
    /\ disk0' = disk
    /\ \E batch_size \in 1..MaxBatch, limit \in {0, MaxLimit},
          dry_run \in BOOLEAN, claude \in BOOLEAN :
        /\ args' = [batch_size |-> batch_size, dry_run |-> dry_run, limit |-> limit]
        /\ IF ~disk[Config.output].exists
           THEN /\ Return("no_output")
                /\ UNCHANGED <<data, loaded, enriched_keys, backups, log_file>>
           ELSE IF Unloadable(disk[Config.output])
           THEN /\ Return("load_error")
                /\ UNCHANGED <<data, loaded, enriched_keys, backups, log_file>>
           ELSE LET doc == load_index(disk[Config.output])
                IN  /\ data' = doc
                    /\ loaded' = doc
                    /\ enriched_keys' = ApplyLimit(VerifyKeys(doc), limit, batch_size)
                    /\ IF VerifyKeys(doc) = <<>>
                       THEN /\ Return("nothing_to_verify")
                            /\ UNCHANGED <<backups, log_file>>
                       ELSE IF dry_run
                       THEN /\ Return("dry_run")
                            /\ UNCHANGED <<backups, log_file>>
                       ELSE IF ~claude
                       THEN /\ Return("no_claude")
                            /\ backups' = backup_index(backups, disk[Config.output])
                            /\ UNCHANGED log_file
                       ELSE /\ backups' = backup_index(backups, disk[Config.output])
                            /\ log_file' = Append(log_file,
                                                  [kind |-> "RUN", atlas |-> atlas_name])
                            /\ pc' = "v_collect" /\ outcome' = outcome
    /\ UNCHANGED <<atlas_name, pool, rerun, disk, ordered_keys, batch_start,
                   valid_keys, attempt, enrichments, printed, calls, batches,
                   pre, unmatched, prev_unmatched, tagger, peer, merged, fixes, result>>
    /\ UNCHANGED <<committed, planned, issues, fixes_applied>>

\* Lines 808-867: load, the keys to verify, and the checks, the backup and
\* the log header before the loop.
VerifyStart ==
    /\ pc = "idle"
    /\ disk0' = disk
    /\ \E batch_size \in 1..MaxBatch, limit \in {0, MaxLimit},
          dry_run \in BOOLEAN, claude \in BOOLEAN :
        /\ args' = [batch_size |-> batch_size, dry_run |-> dry_run, limit |-> limit]
        /\ IF ~disk[Config.output].exists
           THEN /\ Return("no_output")
                /\ UNCHANGED <<data, loaded, enriched_keys, backups, log_file>>
           ELSE IF Unloadable(disk[Config.output])
           THEN /\ Return("load_error")
                /\ UNCHANGED <<data, loaded, enriched_keys, backups, log_file>>
           ELSE LET doc == load_index(disk[Config.output])
                IN  /\ data' = doc
                    /\ loaded' = doc
                    /\ enriched_keys' = ApplyLimit(VerifyKeys(doc), limit, batch_size)
                    /\ IF VerifyKeys(doc) = <<>>
                       THEN /\ Return("nothing_to_verify")
                            /\ UNCHANGED <<backups, log_file>>
                       ELSE IF dry_run
                       THEN /\ Return("dry_run")
                            /\ UNCHANGED <<backups, log_file>>
                       ELSE IF ~claude
                       THEN /\ Return("no_claude")
                            /\ UNCHANGED <<backups, log_file>>
                       ELSE /\ backups' = backup_index(backups, disk[Config.output])
                            /\ log_file' = Append(log_file,
                                                  [kind |-> "RUN", atlas |-> atlas_name])
                            /\ pc' = "v_collect" /\ outcome' = outcome
    /\ UNCHANGED <<atlas_name, pool, rerun, disk, ordered_keys, batch_start,
                   valid_keys, attempt, enrichments, printed, calls, batches,
                   pre, unmatched, prev_unmatched, tagger, peer, merged, fixes, result>>
    /\ UNCHANGED <<committed, planned, issues, fixes_applied>>

\* Lines 871-893: the head of a verify batch, the images of its sprites.
VerifyCollect ==
    /\ pc = "v_collect"
    /\ LET batch_keys == BatchAt(enriched_keys, batch_start, args.batch_size)
       IN  /\ batches' = Append(batches, batch_keys)
           /\ \E valid \in SubSeqs(batch_keys) :
                IF valid = <<>>
                THEN VerifyNextBatch(log_file)
                ELSE /\ valid_keys' = valid
                     /\ attempt' = 0
                     /\ fixes' = <<>>
                     /\ pc' = "v_oracle"
                     /\ UNCHANGED <<batch_start, outcome, pre, log_file>>
    /\ UNCHANGED <<atlas_name, pool, rerun, disk, args, data, ordered_keys,
                   enrichments, printed, loaded, disk0, calls, unmatched,
                   prev_unmatched, tagger, peer, merged, backups, enriched_keys, result>>
    /\ UNCHANGED <<committed, planned, issues, fixes_applied>>

\* Lines 943-976 and 978-1005: an attempt that yields no array. A timeout or
\* a subprocess error leaves "result" as it was; a non-zero exit or an
\* unparseable output has assigned it. After the last attempt the failure is
\* logged with the sprites and with result.stdout, whatever "result" is by
\* then; when it was never assigned, result.stdout raises UnboundLocalError
\* in the try and again in its handler, and the run ends.
VerifyFails ==
    /\ pc = "v_oracle"
    /\ \E kind \in FailKinds :
        LET batch_num == (batch_start \div args.batch_size) + 1
            res == IF kind \in {"timeout", "subprocess_error"}
                   THEN result
                   ELSE [bound |-> TRUE, batch |-> batch_num,
                         attempt |-> attempt + 1]
            failure == Append(log_file, [kind |-> "PARSE_FAILURE",
                                         batch |-> batch_num,
                                         sprites |-> valid_keys])
        IN  /\ calls' = calls + 1
            /\ result' = res
            /\ IF attempt + 1 < max_retries
               THEN /\ attempt' = attempt + 1
                    /\ UNCHANGED <<pc, batch_start, outcome, valid_keys, fixes,
                                   pre, log_file>>
               ELSE IF ~res.bound
               THEN /\ Return("crashed")
                    /\ log_file' = VerifyFinally(failure, log_file)
                    /\ UNCHANGED <<batch_start, valid_keys, attempt, fixes, pre>>
               ELSE VerifyNextBatch(Append(failure, [kind |-> "RAW", of |-> res]))
    /\ UNCHANGED <<atlas_name, pool, rerun, disk, args, data, ordered_keys,
                   enrichments, printed, loaded, disk0, batches, unmatched,
                   prev_unmatched, tagger, peer, merged, backups, enriched_keys>>
    /\ UNCHANGED <<committed, planned, issues, fixes_applied>>

\* Lines 943-976 and 1007-1009: an attempt whose output parses to an array;
\* an empty one means "All OK".
VerifyReplies ==
    /\ pc = "v_oracle"
    /\ \E reply \in Replies(pool, Len(valid_keys)) :
        /\ calls' = calls + 1
        /\ result' = [bound |-> TRUE,
                      batch |-> (batch_start \div args.batch_size) + 1,
                      attempt |-> attempt + 1]
        /\ IF reply = <<>>
           THEN VerifyNextBatch(log_file)
           ELSE /\ fixes' = reply
                /\ pc' = "v_apply"
                /\ UNCHANGED <<batch_start, outcome, valid_keys, attempt, pre,
                               log_file>>
    /\ UNCHANGED <<atlas_name, pool, rerun, disk, args, data, ordered_keys,
                   enrichments, printed, loaded, disk0, batches, unmatched,
                   prev_unmatched, tagger, peer, merged, backups, enriched_keys>>
    /\ UNCHANGED <<committed, planned, issues, fixes_applied>>

\* Lines 1011-1059: the fixes are applied by index and logged.
VerifyApply ==
    /\ pc = "v_apply"
    /\ LET r == ApplyFixes(data.sprites, log_file, valid_keys, fixes, 1)
       IN  /\ pre' = data.sprites
           /\ data' = [data EXCEPT !.sprites = r.sprites]
           /\ IF r.raised
              THEN /\ Return("crashed")
                   /\ log_file' = VerifyFinally(r.log, log_file)
              ELSE /\ pc' = "v_save" /\ outcome' = outcome
                   /\ log_file' = r.log
    /\ UNCHANGED <<atlas_name, pool, rerun, disk, args, ordered_keys, batch_start,
                   valid_keys, attempt, enrichments, printed, loaded, disk0,
                   calls, batches, unmatched, prev_unmatched, tagger, peer, merged, backups,
                   enriched_keys, fixes, result>>
    /\ UNCHANGED <<committed, planned, issues, fixes_applied>>

\* Line 1060: the tagged output is saved, then the next batch.
VerifySave ==
    /\ pc = "v_save"
    /\ disk' = [disk EXCEPT ![Config.output] = save_index(data)]
    /\ VerifyNextBatch(log_file)
    /\ UNCHANGED <<atlas_name, pool, rerun, args, data, ordered_keys,
                   enrichments, printed, loaded, disk0, calls, batches,
                   unmatched, prev_unmatched, tagger, peer, merged, backups, enriched_keys, result>>
    /\ UNCHANGED <<committed, planned, issues, fixes_applied>>

\* One invocation with --verify.
NextVerify ==
    \/ VerifyStart
    \/ VerifyCollect
    \/ VerifyFails
    \/ VerifyReplies
    \/ VerifyApply
    \/ VerifySave

\* A verify run on a tagged output of a few sprites.
InitVerify == InitWith(TaggedCatalogs(MaxFewSprites), VerifyOracle)

SpecVerify == InitVerify /\ [][NextVerify]_vars

\* main: one invocation of the tool, in enrichment mode or with --verify; the
\* oracle answers in the format the mode's prompt asks for.
InitMain == InitRerun \/ InitVerify

NextMain ==
    \/ pool = PlainOracle /\ NextOnce
    \/ pool = VerifyOracle /\ NextVerify

SpecMain == InitMain /\ [][NextMain]_vars

(* ------------------------------------------------------------ check_atlas *)

\* Text as code points: what the regular expressions and the string methods
\* of check_atlas and check_dcss work on.
IsDigit(c) == c >= 48 /\ c <= 57

\* \w of an ASCII text.
IsWordChar(c) ==
    \/ IsDigit(c)
    \/ c >= 65 /\ c <= 90
    \/ c >= 97 /\ c <= 122
    \/ c = 95

\* One character, lower case (re.IGNORECASE compares case-folded).
Lower(c) == IF c >= 65 /\ c <= 90 THEN c + 32 ELSE c

\* str.startswith(prefix)
StartsWith(s, prefix) ==
    /\ Len(prefix) <= Len(s)
    /\ SubSeq(s, 1, Len(prefix)) = prefix

\* str.replace(old, ""): every occurrence, left to right.
RECURSIVE RemoveAll(_, _)
RemoveAll(s, old) ==
    IF s = <<>> THEN <<>>
    ELSE IF StartsWith(s, old) THEN RemoveAll(SubSeq(s, Len(old) + 1, Len(s)), old)
    ELSE <<Head(s)>> \o RemoveAll(Tail(s), old)

\* re.sub(r'_\d+$', '', s): a final underscore with digits after it.
StripNumberSuffix(s) ==
    LET starts == {i \in DOMAIN s :
                       /\ s[i] = 95
                       /\ i < Len(s)
                       /\ \A j \in (i + 1)..Len(s) : IsDigit(s[j])}
    IN  IF starts = {} THEN s
        ELSE SubSeq(s, 1, (CHOOSE i \in starts : \A j \in starts : i <= j) - 1)

\* re.sub(r'^altar_?', '', s)
StripAltar(s) ==
    IF StartsWith(s, <<97, 108, 116, 97, 114, 95>>) THEN SubSeq(s, 7, Len(s))
    ELSE IF StartsWith(s, <<97, 108, 116, 97, 114>>) THEN SubSeq(s, 6, Len(s))
    ELSE s

\* The matches of \bword\b with re.IGNORECASE: where the word stands with no
\* word character next to it.
WordMatches(text, word) ==
    {i \in DOMAIN text :
        /\ i + Len(word) - 1 <= Len(text)
        /\ \A j \in DOMAIN word : Lower(text[i + j - 1]) = word[j]
        /\ (i = 1 \/ ~IsWordChar(text[i - 1]))
        /\ (i + Len(word) > Len(text) \/ ~IsWordChar(text[i + Len(word)]))}

\* pattern.sub(repl, text): the text from position i on, every match replaced.
RECURSIVE SubWordFrom(_, _, _, _)
SubWordFrom(text, i, word, repl) ==
    LET ahead == {m \in WordMatches(text, word) : m >= i}
    IN  IF ahead = {} THEN SubSeq(text, i, Len(text))
        ELSE LET m == CHOOSE x \in ahead : \A y \in ahead : x <= y
             IN  SubSeq(text, i, m - 1) \o repl
                    \o SubWordFrom(text, m + Len(word), word, repl)

SubWord(text, word, repl) == SubWordFrom(text, 1, word, repl)

\* DESC_SPELLING: (r'\bgray\b', 'grey'), (r'\barmor\b', 'armour'), in this order.
DESC_SPELLING ==
    << [word |-> <<103, 114, 97, 121>>, repl |-> <<103, 114, 101, 121>>],
       [word |-> <<97, 114, 109, 111, 114>>, repl |-> <<97, 114, 109, 111, 117, 114>>] >>

\* TAG_SPELLING.get(t, t)
TAG_SPELLING(t) ==
    IF t = "gray" THEN "grey" ELSE IF t = "armor" THEN "armour" ELSE t

CREATURE_STRIP_TAGS == {"armour", "equipment", "weapon", "player"}

ALTAR_STRIP_TAGS == {"weapon", "sword"}

\* The god names as they occur in file names.
HOLY_GODS ==
    { <<122, 105, 110>>,    \* "zin"
      <<115, 104, 105, 110, 105, 110, 103, 95, 111, 110, 101>>,    \* "shining_one"
      <<101, 108, 121, 118, 105, 108, 111, 110>> }    \* "elyvilon"

UNHOLY_GODS ==
    { <<98, 101, 111, 103, 104>>,    \* "beogh"
      <<106, 105, 121, 118, 97>>,    \* "jiyva"
      <<107, 105, 107, 117, 98, 97, 97, 113, 117, 100, 103, 104, 97>>,    \* "kikubaaqudgha"
      <<108, 117, 103, 111, 110, 117>>,    \* "lugonu"
      <<109, 97, 107, 104, 108, 101, 98>>,    \* "makhleb"
      <<121, 114, 101, 100, 101, 108, 101, 109, 110, 117, 108>> }    \* "yredelemnul"

\* DIR_EXPECTED_TAGS, in the order of the dict.
DIR_EXPECTED_TAGS ==
    << [name |-> "dungeon/doors", expected |-> <<"door">>,
        prefix |-> <<100, 117, 110, 103, 101, 111, 110, 47, 100, 111, 111, 114, 115>>],
       [name |-> "dungeon/altars", expected |-> <<"altar">>,
        prefix |-> <<100, 117, 110, 103, 101, 111, 110, 47, 97, 108, 116, 97, 114, 115>>],
       [name |-> "dungeon/walls", expected |-> <<"wall">>,
        prefix |-> <<100, 117, 110, 103, 101, 111, 110, 47, 119, 97, 108, 108, 115>>],
       [name |-> "dungeon/floor", expected |-> <<"floor">>,
        prefix |-> <<100, 117, 110, 103, 101, 111, 110, 47, 102, 108, 111, 111, 114>>],
       [name |-> "monster/undead", expected |-> <<"undead">>,
        prefix |-> <<109, 111, 110, 115, 116, 101, 114, 47, 117, 110, 100, 101, 97, 100>>],
       [name |-> "monster/demons", expected |-> <<"demon">>,
        prefix |-> <<109, 111, 110, 115, 116, 101, 114, 47, 100, 101, 109, 111, 110, 115>>],
       [name |-> "monster/dragons", expected |-> <<"dragon">>,
        prefix |-> <<109, 111, 110, 115, 116, 101, 114, 47, 100, 114, 97, 103, 111, 110, 115>>],
       [name |-> "monster/insects", expected |-> <<"insect">>,
        prefix |-> <<109, 111, 110, 115, 116, 101, 114, 47, 105, 110, 115, 101, 99, 116, 115>>],
       [name |-> "item/weapon", expected |-> <<"weapon">>,
        prefix |-> <<105, 116, 101, 109, 47, 119, 101, 97, 112, 111, 110>>],
       [name |-> "item/armour", expected |-> <<"armour">>,
        prefix |-> <<105, 116, 101, 109, 47, 97, 114, 109, 111, 117, 114>>],
       [name |-> "item/potion", expected |-> <<"potion">>,
        prefix |-> <<105, 116, 101, 109, 47, 112, 111, 116, 105, 111, 110>>],
       [name |-> "item/scroll", expected |-> <<"scroll">>,
        prefix |-> <<105, 116, 101, 109, 47, 115, 99, 114, 111, 108, 108>>],
       [name |-> "item/wand", expected |-> <<"wand">>,
        prefix |-> <<105, 116, 101, 109, 47, 119, 97, 110, 100>>],
       [name |-> "item/ring", expected |-> <<"ring">>,
        prefix |-> <<105, 116, 101, 109, 47, 114, 105, 110, 103>>],
       [name |-> "item/amulet", expected |-> <<"amulet">>,
        prefix |-> <<105, 116, 101, 109, 47, 97, 109, 117, 108, 101, 116>>],
       [name |-> "item/book", expected |-> <<"book">>,
        prefix |-> <<105, 116, 101, 109, 47, 98, 111, 111, 107>>],
       [name |-> "item/food", expected |-> <<"food">>,
        prefix |-> <<105, 116, 101, 109, 47, 102, 111, 111, 100>>],
       [name |-> "item/gold", expected |-> <<"gold">>,
        prefix |-> <<105, 116, 101, 109, 47, 103, 111, 108, 100>>],
       [name |-> "player/", expected |-> <<"player">>,
        prefix |-> <<112, 108, 97, 121, 101, 114, 47>>] >>

\* "dungeon/altars"
AltarDir == <<100, 117, 110, 103, 101, 111, 110, 47, 97, 108, 116, 97, 114, 115>>

\* ".png"
DotPng == <<46, 112, 110, 103>>

\* The keys of the tagged outputs that are checked.
CheckKeyUniverse ==
    << \* "dungeon/altars/altar_zin.png"
       <<100, 117, 110, 103, 101, 111, 110, 47, 97, 108, 116, 97, 114, 115, 47,
         97, 108, 116, 97, 114, 95, 122, 105, 110, 46, 112, 110, 103>>,
       \* "dungeon\altars\altar_makhleb_2"
       <<100, 117, 110, 103, 101, 111, 110, 92, 97, 108, 116, 97, 114, 115, 92,
         97, 108, 116, 97, 114, 95, 109, 97, 107, 104, 108, 101, 98, 95, 50>>,
       \* "monster/undead/lich_1"
       <<109, 111, 110, 115, 116, 101, 114, 47, 117, 110, 100, 101, 97, 100, 47,
         108, 105, 99, 104, 95, 49>>,
       \* "monster/undead/lich_2"
       <<109, 111, 110, 115, 116, 101, 114, 47, 117, 110, 100, 101, 97, 100, 47,
         108, 105, 99, 104, 95, 50>>,
       \* "item/weapon/axe"
       <<105, 116, 101, 109, 47, 119, 101, 97, 112, 111, 110, 47, 97, 120, 101>>,
       \* "dungeon/altars/shining_one"
       <<100, 117, 110, 103, 101, 111, 110, 47, 97, 108, 116, 97, 114, 115, 47,
         115, 104, 105, 110, 105, 110, 103, 95, 111, 110, 101>> >>

\* The descriptions that occur, before and after a spelling fix; the last is
\* longer than 300 characters.
DescUniverse ==
    { "a grey lich wearing tattered funeral robes",
      "Gray lich in armor",
      "grey lich in armour",
      "an altar of grayish stone, stained with old blood",
      "a heavy axe with a gray blade and an ARMOR-piercing spike",
      "a heavy axe with a grey blade and an armour-piercing spike",
      "a tall altar of pale stone with carved runes and candles with carved runes and candles with carved runes and candles with carved runes and candles with carved runes and candles with carved runes and candles with carved runes and candles with carved runes and candles with carved runes and candles with carved runes and candles " }

\* The characters of a description.
Chars(desc) ==
    CASE desc = "" -> <<>>
      [] desc = "a grey lich wearing tattered funeral robes" ->
           <<97, 32, 103, 114, 101, 121, 32, 108, 105, 99, 104, 32, 119, 101,
             97, 114, 105, 110, 103, 32, 116, 97, 116, 116, 101, 114, 101,
             100, 32, 102, 117, 110, 101, 114, 97, 108, 32, 114, 111, 98,
             101, 115>>
      [] desc = "Gray lich in armor" ->
           <<71, 114, 97, 121, 32, 108, 105, 99, 104, 32, 105, 110, 32, 97,
             114, 109, 111, 114>>
      [] desc = "grey lich in armour" ->
           <<103, 114, 101, 121, 32, 108, 105, 99, 104, 32, 105, 110, 32, 97,
             114, 109, 111, 117, 114>>
      [] desc = "an altar of grayish stone, stained with old blood" ->
           <<97, 110, 32, 97, 108, 116, 97, 114, 32, 111, 102, 32, 103, 114,
             97, 121, 105, 115, 104, 32, 115, 116, 111, 110, 101, 44, 32,
             115, 116, 97, 105, 110, 101, 100, 32, 119, 105, 116, 104, 32,
             111, 108, 100, 32, 98, 108, 111, 111, 100>>
      [] desc = "a heavy axe with a gray blade and an ARMOR-piercing spike" ->
           <<97, 32, 104, 101, 97, 118, 121, 32, 97, 120, 101, 32, 119, 105,
             116, 104, 32, 97, 32, 103, 114, 97, 121, 32, 98, 108, 97, 100,
             101, 32, 97, 110, 100, 32, 97, 110, 32, 65, 82, 77, 79, 82, 45,
             112, 105, 101, 114, 99, 105, 110, 103, 32, 115, 112, 105, 107,
             101>>
      [] desc = "a heavy axe with a grey blade and an armour-piercing spike" ->
           <<97, 32, 104, 101, 97, 118, 121, 32, 97, 120, 101, 32, 119, 105,
             116, 104, 32, 97, 32, 103, 114, 101, 121, 32, 98, 108, 97, 100,
             101, 32, 97, 110, 100, 32, 97, 110, 32, 97, 114, 109, 111, 117,
             114, 45, 112, 105, 101, 114, 99, 105, 110, 103, 32, 115, 112,
             105, 107, 101>>
      [] desc = "a tall altar of pale stone with carved runes and candles with carved runes and candles with carved runes and candles with carved runes and candles with carved runes and candles with carved runes and candles with carved runes and candles with carved runes and candles with carved runes and candles with carved runes and candles " ->
           <<97, 32, 116, 97, 108, 108, 32, 97, 108, 116, 97, 114, 32, 111,
             102, 32, 112, 97, 108, 101, 32, 115, 116, 111, 110, 101, 32,
             119, 105, 116, 104, 32, 99, 97, 114, 118, 101, 100, 32, 114,
             117, 110, 101, 115, 32, 97, 110, 100, 32, 99, 97, 110, 100, 108,
             101, 115, 32, 119, 105, 116, 104, 32, 99, 97, 114, 118, 101,
             100, 32, 114, 117, 110, 101, 115, 32, 97, 110, 100, 32, 99, 97,
             110, 100, 108, 101, 115, 32, 119, 105, 116, 104, 32, 99, 97,
             114, 118, 101, 100, 32, 114, 117, 110, 101, 115, 32, 97, 110,
             100, 32, 99, 97, 110, 100, 108, 101, 115, 32, 119, 105, 116,
             104, 32, 99, 97, 114, 118, 101, 100, 32, 114, 117, 110, 101,
             115, 32, 97, 110, 100, 32, 99, 97, 110, 100, 108, 101, 115, 32,
             119, 105, 116, 104, 32, 99, 97, 114, 118, 101, 100, 32, 114,
             117, 110, 101, 115, 32, 97, 110, 100, 32, 99, 97, 110, 100, 108,
             101, 115, 32, 119, 105, 116, 104, 32, 99, 97, 114, 118, 101,
             100, 32, 114, 117, 110, 101, 115, 32, 97, 110, 100, 32, 99, 97,
             110, 100, 108, 101, 115, 32, 119, 105, 116, 104, 32, 99, 97,
             114, 118, 101, 100, 32, 114, 117, 110, 101, 115, 32, 97, 110,
             100, 32, 99, 97, 110, 100, 108, 101, 115, 32, 119, 105, 116,
             104, 32, 99, 97, 114, 118, 101, 100, 32, 114, 117, 110, 101,
             115, 32, 97, 110, 100, 32, 99, 97, 110, 100, 108, 101, 115, 32,
             119, 105, 116, 104, 32, 99, 97, 114, 118, 101, 100, 32, 114,
             117, 110, 101, 115, 32, 97, 110, 100, 32, 99, 97, 110, 100, 108,
             101, 115, 32, 119, 105, 116, 104, 32, 99, 97, 114, 118, 101,
             100, 32, 114, 117, 110, 101, 115, 32, 97, 110, 100, 32, 99, 97,
             110, 100, 108, 101, 115, 32>>

\* The description with the given characters.
Text(chars) ==
    IF chars = <<>> THEN ""
    ELSE CHOOSE desc \in DescUniverse : Chars(desc) = chars

\* What the enriched sprites of a tagged output look like: a clean creature;
\* a creature whose only tag is its tile type;
\* a creature with its tile type twice among its tags, equipment tags and
\* American spellings; an altar without alignment tags; one with all of them,
\* its tile type and a long description; an item with more than ten tags.
CheckStates ==
    { NoFields,
      [description |-> "a grey lich wearing tattered funeral robes",
       tags |-> <<"undead", "skeleton", "grey">>, tile_type |-> "creature"],
      [description |-> "a grey lich wearing tattered funeral robes",
       tags |-> <<"creature">>, tile_type |-> "creature"],
      [description |-> "Gray lich in armor",
       tags |-> <<"creature", "weapon", "armor", "creature">>,
       tile_type |-> "creature"],
      [description |-> "an altar of grayish stone, stained with old blood",
       tags |-> <<"stone", "sword">>, tile_type |-> "altar"],
      [description |-> "a tall altar of pale stone with carved runes and candles with carved runes and candles with carved runes and candles with carved runes and candles with carved runes and candles with carved runes and candles with carved runes and candles with carved runes and candles with carved runes and candles with carved runes and candles ",
       tags |-> <<"holy", "unholy", "sacred", "altar", "holy">>,
       tile_type |-> "altar"],
      [description |-> "a heavy axe with a gray blade and an ARMOR-piercing spike",
       tags |-> <<"axe", "gray", "iron", "steel", "blade", "heavy", "sharp",
                  "melee", "two-handed", "war", "spike">>,
       tile_type |-> "item"] }

IndexOfCheckKey(key) ==
    CHOOSE i \in DOMAIN CheckKeyUniverse : CheckKeyUniverse[i] = key

\* The tagged outputs of at most n sprites: runs of neighbours in the
\* universe.
CheckCatalogs(n) ==
    UNION { { Doc(order, [k \in Range(order) |->
                              e[k] @@ BaseInfo(IndexOfCheckKey(k))]) :
              e \in [Range(order) -> CheckStates] } :
            order \in { SubSeq(CheckKeyUniverse, w[1], w[1] + w[2] - 1) :
                        w \in {x \in (DOMAIN CheckKeyUniverse) \X (0..n) :
                                  x[1] + x[2] - 1 <= Len(CheckKeyUniverse)} } }

\* A variant that takes every sprite for enriched.
AllKeys(doc) == doc.sprite_order

\* enriched = {k: v for k, v in sprites.items() if is_enriched(v)}: its keys,
\* in the order of the dict.
EnrichedKeys(doc) ==
    SelectSeq(doc.sprite_order, LAMBDA k : is_enriched(doc.sprites[k]))

\* An element of issues: category, key, and the tags or the description the
\* message is about.
Issue(cat, key, detail) == [cat |-> cat, key |-> key, detail |-> detail]

\* The state of a check: the sprites (enriched shares its dicts with data),
\* the issues and the count of fixes.
Fixed(st, key, info) ==
    [st EXCEPT !.sprites[key] = info, !.fixes = @ + 1]

Reported(st, issue) == [st EXCEPT !.issues = Append(@, issue)]

\* A variant that removes the tile type from the tags in report mode too.
StripTileTypeAlways(st, key, fix) ==
    LET info == st.sprites[key]
        tt == info.tile_type
    IN  IF tt # "" /\ tt \in Range(info.tags)
        THEN Fixed(st, key, [info EXCEPT !.tags = RemoveFirst(@, tt)])
        ELSE st

\* Lines 1106-1115: the tile type among the tags.
StripTileType(st, key, fix) ==
    LET info == st.sprites[key]
        tt == info.tile_type
    IN  IF tt # "" /\ tt \in Range(info.tags)
        THEN IF fix
             THEN Fixed(st, key, [info EXCEPT !.tags = RemoveFirst(@, tt)])
             ELSE Reported(st, Issue("TILE_TYPE_IN_TAGS", key, <<tt>>))
        ELSE st

\* Lines 1118-1131: American spelling in the tags.
TagSpelling(st, key, fix) ==
    LET info == st.sprites[key]
        tags == info.tags
        new_tags == [i \in DOMAIN tags |-> TAG_SPELLING(tags[i])]
    IN  IF new_tags # tags
        THEN IF fix
             THEN Fixed(st, key, [info EXCEPT !.tags = new_tags])
             ELSE Reported(st, Issue("SPELLING", key,
                                     SelectSeq(tags, LAMBDA t : TAG_SPELLING(t) # t)))
        ELSE st

\* for pattern, repl in DESC_SPELLING: new_desc = pattern.sub(repl, new_desc)
RECURSIVE SubAll(_, _)
SubAll(text, patterns) ==
    IF patterns = <<>> THEN text
    ELSE SubAll(SubWord(text, Head(patterns).word, Head(patterns).repl),
                Tail(patterns))

\* Lines 1134-1146: American spelling in the description.
DescSpelling(st, key, fix) ==
    LET info == st.sprites[key]
        desc == Chars(info.description)
        new_desc == SubAll(desc, DESC_SPELLING)
    IN  IF new_desc # desc
        THEN IF fix
             THEN Fixed(st, key, [info EXCEPT !.description = Text(new_desc)])
             ELSE Reported(st, Issue("SPELLING_DESC", key, <<>>))
        ELSE st

\* [t for t in tags if t not in strip]
Except(tags, strip) == SelectSeq(tags, LAMBDA t : t \notin strip)

\* Lines 146-156: equipment tags on creatures.
CreatureStrip(st, key, fix) ==
    LET info == st.sprites[key]
        removed == SelectSeq(info.tags, LAMBDA t : t \in CREATURE_STRIP_TAGS)
    IN  IF info.tile_type = "creature" /\ removed # <<>>
        THEN IF fix
             THEN Fixed(st, key, [info EXCEPT !.tags = Except(@, CREATURE_STRIP_TAGS)])
             ELSE Reported(st, Issue("CREATURE_EQUIP_TAG", key, removed))
        ELSE st

\* Lines 159-169: weapon tags on altars.
AltarStrip(st, key, fix) ==
    LET info == st.sprites[key]
        removed == SelectSeq(info.tags, LAMBDA t : t \in ALTAR_STRIP_TAGS)
    IN  IF info.tile_type = "altar" /\ removed # <<>>
        THEN IF fix
             THEN Fixed(st, key, [info EXCEPT !.tags = Except(@, ALTAR_STRIP_TAGS)])
             ELSE Reported(st, Issue("ALTAR_EQUIP_TAG", key, removed))
        ELSE st

\* The last element of a non-empty list.
Last(s) == s[Len(s)]

\* norm.split("/")[-1].replace(".png", "")
FileName(path) == RemoveAll(Last(Split(path, Ch.slash)), DotPng)

\* Lines 178-181: the god an altar's file name stands for, whole and up to
\* the first underscore.
GodName(norm) == StripNumberSuffix(StripAltar(FileName(norm)))

GodBase(norm) ==
    IF GodName(norm) = <<>> THEN <<>>
    ELSE Split(GodName(norm), Ch.underscore)[1]

\* A variant that does not ask for "sacred".
TagFixesUnaligned(norm, tags) ==
    LET should_holy == GodBase(norm) \in HOLY_GODS \/ GodName(norm) \in HOLY_GODS
    IN  IF should_holy /\ "holy" \notin Range(tags)
        THEN <<[action |-> "add", tag |-> "holy"]>> ELSE <<>>

\* Lines 186-196: the tags to add and to remove.
TagFixes(norm, tags) ==
    LET should_holy == GodBase(norm) \in HOLY_GODS \/ GodName(norm) \in HOLY_GODS
        should_unholy == GodBase(norm) \in UNHOLY_GODS \/ GodName(norm) \in UNHOLY_GODS
        has(t) == t \in Range(tags)
        when(c, action, tag) ==
            IF c THEN <<[action |-> action, tag |-> tag]>> ELSE <<>>
    IN  when(~has("sacred"), "add", "sacred")
        \o when(should_holy /\ ~has("holy"), "add", "holy")
        \o when(~should_holy /\ has("holy"), "remove", "holy")
        \o when(should_unholy /\ ~has("unholy"), "add", "unholy")
        \o when(~should_unholy /\ has("unholy"), "remove", "unholy")

\* Lines 200-204: tags.append(tag) and tags.remove(tag), fix by fix.
RECURSIVE ApplyTagFixes(_, _)
ApplyTagFixes(tags, tag_fixes) ==
    IF tag_fixes = <<>> THEN tags
    ELSE LET f == Head(tag_fixes)
             next == IF f.action = "add" /\ f.tag \notin Range(tags)
                     THEN Append(tags, f.tag)
                     ELSE IF f.action = "remove" /\ f.tag \in Range(tags)
                     THEN RemoveFirst(tags, f.tag)
                     ELSE tags
         IN  ApplyTagFixes(next, Tail(tag_fixes))

\* The fixes as the message lists them: action, tag, action, tag, ...
RECURSIVE DescribeTagFixes(_)
DescribeTagFixes(tag_fixes) ==
    IF tag_fixes = <<>> THEN <<>>
    ELSE <<Head(tag_fixes).action, Head(tag_fixes).tag>>
            \o DescribeTagFixes(Tail(tag_fixes))

\* Lines 172-212: sacred, holy and unholy on the altars' directory.
AltarAlign(st, key, fix) ==
    LET info == st.sprites[key]
        norm == NormSlashes(key)
        tag_fixes == TagFixes(norm, info.tags)
    IN  IF StartsWith(norm, AltarDir) /\ tag_fixes # <<>>
        THEN IF fix
             THEN Fixed(st, key, [info EXCEPT !.tags = ApplyTagFixes(@, tag_fixes)])
             ELSE Reported(st, Issue("ALTAR_ALIGN", key, DescribeTagFixes(tag_fixes)))
        ELSE st

\* A variant that appends no missing tag.
AppendMissingNone(tags, missing) == tags

\* for t in missing: if t not in info["tags"]: info["tags"].append(t)
RECURSIVE AppendMissing(_, _)
AppendMissing(tags, missing) ==
    IF missing = <<>> THEN tags
    ELSE AppendMissing(IF Head(missing) \in Range(tags) THEN tags
                       ELSE Append(tags, Head(missing)),
                       Tail(missing))

\* Lines 220-230: the entries of DIR_EXPECTED_TAGS whose prefix the key
\* starts with, one after the other, for one sprite.
RECURSIVE DirMismatchFrom(_, _, _, _)
DirMismatchFrom(st, key, fix, entries) ==
    IF entries = <<>> THEN st
    ELSE LET info == st.sprites[key]
             entry == Head(entries)
             tt == IF "tile_type" \in DOMAIN info THEN info.tile_type ELSE ""
             missing == SelectSeq(entry.expected,
                                  LAMBDA t : t \notin Range(info.tags) /\ t # tt)
             after ==
                 IF missing # <<>>
                 THEN IF fix
                      THEN Fixed(st, key,
                                 [info EXCEPT !.tags = AppendMissing(@, missing)])
                      ELSE Reported(st, Issue("DIR_MISMATCH", key, missing))
                 ELSE st
         IN  DirMismatchFrom(after, key, fix, Tail(entries))

\* Lines 215-230: the tag that a directory stands for.
DirMismatch(st, key, fix) ==
    DirMismatchFrom(st, key, fix,
                    SelectSeq(DIR_EXPECTED_TAGS,
                              LAMBDA e : StartsWith(NormSlashes(key), e.prefix)))

\* A variant that takes three tags for few.
TagCountAtMost(st, key, fix) ==
    LET tags == st.sprites[key].tags
    IN  IF Len(tags) <= 3 THEN Reported(st, Issue("FEW_TAGS", key, tags))
        ELSE IF Len(tags) > 10 THEN Reported(st, Issue("MANY_TAGS", key, tags))
        ELSE st

\* Lines 1157-1162: the number of tags, reported only.
TagCount(st, key, fix) ==
    LET tags == st.sprites[key].tags
    IN  IF Len(tags) < 3 THEN Reported(st, Issue("FEW_TAGS", key, tags))
        ELSE IF Len(tags) > 10 THEN Reported(st, Issue("MANY_TAGS", key, tags))
        ELSE st

\* Lines 1165-1170: the length of the description, reported only.
DescLength(st, key, fix) ==
    LET desc == st.sprites[key].description
    IN  IF Len(Chars(desc)) < 30 THEN Reported(st, Issue("SHORT_DESC", key, <<desc>>))
        ELSE IF Len(Chars(desc)) > 300
        THEN Reported(st, Issue("LONG_DESC", key, <<desc>>))
        ELSE st

\* The body of a loop over the enriched sprites, by the rule it applies.
Step(rule, st, key, fix) ==
    CASE rule = "StripTileType" -> StripTileType(st, key, fix)
      [] rule = "TagSpelling" -> TagSpelling(st, key, fix)
      [] rule = "DescSpelling" -> DescSpelling(st, key, fix)
      [] rule = "CreatureStrip" -> CreatureStrip(st, key, fix)
      [] rule = "AltarStrip" -> AltarStrip(st, key, fix)
      [] rule = "AltarAlign" -> AltarAlign(st, key, fix)
      [] rule = "DirMismatch" -> DirMismatch(st, key, fix)
      [] rule = "TagCount" -> TagCount(st, key, fix)
      [] rule = "DescLength" -> DescLength(st, key, fix)

\* for key, info in enriched.items(): one loop of the check, the state after
\* a sprite being computed before the next sprite is visited.
RECURSIVE ForEach(_, _, _, _)
ForEach(rule, keys, st, fix) ==
    IF keys = <<>> THEN st
    ELSE CHOOSE last \in { ForEach(rule, Tail(keys), next, fix) :
                             next \in {Step(rule, st, Head(keys), fix)} } : TRUE

\* check_dcss: its four loops; the count it returns is added to the caller's.
check_dcss(st, keys, fix) ==
    ForEach("DirMismatch", keys,
        ForEach("AltarAlign", keys,
            ForEach("AltarStrip", keys,
                ForEach("CreatureStrip", keys, st, fix), fix), fix), fix)

\* ", ".join(keys)
RECURSIVE Join(_)
Join(keys) ==
    IF Len(keys) = 1 THEN keys[1]
    ELSE keys[1] \o <<44, 32>> \o Join(Tail(keys))

\* A variant that does not look at the base names.
RECURSIVE DupeDescFromAnyBase(_, _, _)
DupeDescFromAnyBase(st, keys, i) ==
    IF i > Len(keys) THEN st
    ELSE LET desc == st.sprites[keys[i]].description
             same == SelectSeq(keys, LAMBDA k : st.sprites[k].description = desc)
         IN  DupeDescFromAnyBase(IF same[1] = keys[i] /\ Len(same) > 1
                                 THEN Reported(st, Issue("DUPE_DESC", Join(same), <<desc>>))
                                 ELSE st,
                                 keys, i + 1)

\* Lines 1173-1185: one description on sprites of different base names; the
\* descriptions are visited in the order of their first sprite.
RECURSIVE DupeDescFrom(_, _, _)
DupeDescFrom(st, keys, i) ==
    IF i > Len(keys) THEN st
    ELSE LET desc == st.sprites[keys[i]].description
             same == SelectSeq(keys, LAMBDA k : st.sprites[k].description = desc)
             bases == {StripNumberSuffix(FileName(k)) : k \in Range(same)}
         IN  DupeDescFrom(IF /\ same[1] = keys[i]
                             /\ Len(same) > 1
                             /\ Cardinality(bases) > 1
                          THEN Reported(st, Issue("DUPE_DESC", Join(same), <<desc>>))
                          ELSE st,
                          keys, i + 1)

\* Lines 1100-1185: the checks, on the enriched sprites of a loaded catalog.
RunChecks(doc, check_extra, fix) ==
    LET keys == EnrichedKeys(doc)
        st0 == [sprites |-> doc.sprites, issues |-> <<>>, fixes |-> 0]
        base == ForEach("DescSpelling", keys,
                    ForEach("TagSpelling", keys,
                        ForEach("StripTileType", keys, st0, fix), fix), fix)
        extra == IF check_extra = "check_dcss" THEN check_dcss(base, keys, fix)
                 ELSE base
    IN  DupeDescFrom(ForEach("DescLength", keys,
                         ForEach("TagCount", keys, extra, fix), fix),
                     keys, 1)

\* A variant that writes the output after every check with --fix.
SaveAfterFixesAlways(fix, applied) == fix

\* Line 1188, "if fix and fixes_applied:": whether the output is written.
SaveAfterFixes(fix, applied) == fix /\ applied # 0

\* check_atlas(atlas_name, fix=fix), from its entry to its report.
CheckAtlas ==
    /\ pc = "idle"
    /\ disk0' = disk
    /\ \E fix \in BOOLEAN :
        /\ args' = [fix |-> fix]
        /\ IF ~disk[Config.output].exists
           THEN /\ Return("no_output")
                /\ UNCHANGED <<data, loaded, disk, backups, issues, fixes_applied>>
           ELSE /\ backups' = IF fix THEN backup_index(backups, disk[Config.output])
                              ELSE backups
                /\ IF Unloadable(disk[Config.output])
                   THEN /\ Return("load_error")
                        /\ UNCHANGED <<data, loaded, disk, issues, fixes_applied>>
                   ELSE LET doc == load_index(disk[Config.output])
                            after == RunChecks(doc, Config.check_extra, fix)
                        IN  /\ loaded' = doc
                            /\ IF EnrichedKeys(doc) = <<>>
                               THEN /\ Return("nothing_to_check")
                                    /\ data' = doc
                                    /\ UNCHANGED <<disk, issues, fixes_applied>>
                               ELSE /\ Return("checked")
                                    /\ data' = [doc EXCEPT !.sprites = after.sprites]
                                    /\ issues' = after.issues
                                    /\ fixes_applied' = after.fixes
                                    /\ disk' = IF SaveAfterFixes(fix, after.fixes)
                                               THEN [disk EXCEPT ![Config.output] =
                                                        save_index(data')]
                                               ELSE disk
    /\ UNCHANGED <<atlas_name, pool, rerun, ordered_keys, batch_start, valid_keys,
                   attempt, enrichments, printed, calls, batches, pre, unmatched,
                   prev_unmatched, tagger, peer, merged, enriched_keys, fixes, result, log_file,
                   committed, planned>>

\* No oracle: check_atlas invokes none.
NoOracle == [entries |-> {}, excess |-> {}]

InitCheck == InitWith(CheckCatalogs(MaxFewSprites), NoOracle)

\* The tool is invoked once more on what a check with --fix left.
CheckAgain ==
    /\ "fix" \in DOMAIN args
    /\ args.fix
    /\ NextRun

\* A check, and a second one after a check that fixes.
NextCheck ==
    \/ CheckAtlas
    \/ CheckAgain

SpecCheck == InitCheck /\ [][NextCheck]_vars

\* main with --check or --verify: the two modes that rewrite sprites of a
\* tagged output in place.
InitModify == InitCheck \/ InitVerify

NextModify ==
    \/ pool = NoOracle /\ CheckAtlas
    \/ pool = VerifyOracle /\ NextVerify

SpecModify == InitModify /\ [][NextModify]_vars

(* ---------------------------------------------------- parse_ai_response *)

\* The longest text of a reply, in tokens.
MaxTokens == 5

\* A text is a sequence of tokens: the brackets, a JSON object that holds no
\* array (EntryPartial), the comma, a markdown fence, the word "json", a
\* newline, a space, and any other word.
Whitespace == {"nl", "sp"}

Tokens == {"[", "]", "obj", ",", "fence", "json", "nl", "w"}

Texts(n) == UNION { [1..m -> Tokens] : m \in 0..n }

\* The first position from i on that holds no whitespace, Len + 1 at the end.
RECURSIVE SkipWs(_, _)
SkipWs(text, i) ==
    IF i <= Len(text) /\ text[i] \in Whitespace THEN SkipWs(text, i + 1) ELSE i

\* str.strip()
RECURSIVE StripRight(_)
StripRight(text) ==
    IF text # <<>> /\ text[Len(text)] \in Whitespace
    THEN StripRight(SubSeq(text, 1, Len(text) - 1)) ELSE text

Strip(text) == StripRight(SubSeq(text, SkipWs(text, 1), Len(text)))

\* What a parser returns: a value and the position after it, or a failure.
NoValue == [ok |-> FALSE, value |-> JList(<<>>), next |-> 0]

\* json.loads on a text: the value that starts at position i, an object or an
\* array of values.
RECURSIVE ParseValue(_, _)
RECURSIVE ParseItems(_, _, _)
ParseValue(text, i) ==
    LET j == SkipWs(text, i)
    IN  IF j > Len(text) THEN NoValue
        ELSE IF text[j] = "obj"
        THEN [ok |-> TRUE, value |-> EntryPartial, next |-> j + 1]
        ELSE IF text[j] = "["
        THEN LET k == SkipWs(text, j + 1)
             IN  IF k <= Len(text) /\ text[k] = "]"
                 THEN [ok |-> TRUE, value |-> JList(<<>>), next |-> k + 1]
                 ELSE ParseItems(text, j + 1, <<>>)
        ELSE NoValue

ParseItems(text, i, items) ==
    LET v == ParseValue(text, i)
        k == SkipWs(text, v.next)
    IN  IF ~v.ok \/ k > Len(text) THEN NoValue
        ELSE IF text[k] = "]"
        THEN [ok |-> TRUE, value |-> JList(Append(items, v.value)), next |-> k + 1]
        ELSE IF text[k] = ","
        THEN ParseItems(text, k + 1, Append(items, v.value))
        ELSE NoValue

\* None, and a parsed array.
None == [ok |-> FALSE, list |-> <<>>]

Parsed(list) == [ok |-> TRUE, list |-> list]

\* try: parsed = json.loads(text); if isinstance(parsed, list): return parsed
LoadsList(text) ==
    LET v == ParseValue(text, 1)
    IN  IF v.ok /\ SkipWs(text, v.next) > Len(text) /\ v.value.type = "list"
        THEN Parsed(v.value.list)
        ELSE None

\* The positions of a token in a text, ascending.
Positions(text, token) ==
    SelectSeq([i \in 1..Len(text) |-> i], LAMBDA i : text[i] = token)

\* The re.search of line 415 (three backquotes, an optional "json", the
\* shortest stretch up to the next three backquotes, re.DOTALL): group 1,
\* what stands between the first fence (and a "json" right after it) and the
\* next fence.
FenceMatch(text) ==
    LET fences == Positions(text, "fence")
    IN  IF Len(fences) < 2 THEN [found |-> FALSE, group |-> <<>>]
        ELSE LET from == IF text[fences[1] + 1] = "json"
                         THEN fences[1] + 2 ELSE fences[1] + 1
             IN  [found |-> TRUE, group |-> SubSeq(text, from, fences[2] - 1)]

\* Lines 413-422: the text between the fences, parsed.
Fenced(text) ==
    IF FenceMatch(text).found THEN LoadsList(Strip(FenceMatch(text).group)) ELSE None

\* re.search(r'\[[\s\S]*\]', text): from the first "[" to the last "]".
ArrMatch(text) ==
    LET opens == Positions(text, "[")
        closes == Positions(text, "]")
    IN  IF opens = <<>> \/ closes = <<>> \/ closes[Len(closes)] < opens[1]
        THEN [found |-> FALSE, group |-> <<>>]
        ELSE [found |-> TRUE, group |-> SubSeq(text, opens[1], closes[Len(closes)])]

\* Lines 424-432: that stretch of the text, parsed.
Bracketed(text) ==
    IF ArrMatch(text).found THEN LoadsList(ArrMatch(text).group) ELSE None

\* Lines 405-435: the three attempts on the text, in order.
ExtractArray(text) ==
    IF LoadsList(text).ok THEN LoadsList(text)
    ELSE IF Fenced(text).ok THEN Fenced(text)
    ELSE Bracketed(text)

\* A value of the wrapper: a string, or a list of content blocks.
WStr(text) == [type |-> "str", str |-> text, blocks |-> <<>>]

WBlocks(blocks) == [type |-> "blocks", str |-> <<>>, blocks |-> blocks]

\* " ".join(block.get("text", "") for block in content
\*          if isinstance(block, dict) and block.get("type") == "text")
RECURSIVE JoinText(_)
JoinText(blocks) ==
    LET rest == SelectSeq(blocks, LAMBDA b : b.type = "text")
    IN  IF rest = <<>> THEN <<>>
        ELSE IF Len(rest) = 1 THEN rest[1].text
        ELSE rest[1].text \o <<"sp">> \o JoinText(Tail(rest))

\* Lines 380-397: the text of the wrapper, "" when it has none.
TextOf(response) ==
    LET d == response.dict
        has(key) == key \in DOMAIN d
        first == IF has("result") /\ d.result.str # <<>>
                 THEN d.result.str
                 ELSE IF has("content")
                 THEN IF d.content.type = "blocks" THEN JoinText(d.content.blocks)
                      ELSE d.content.str
                 ELSE <<>>
        keys == SelectSeq(<<"text", "message", "output">>,
                          LAMBDA key : has(key) /\ d[key].type = "str")
    IN  IF response.type # "dict" THEN <<>>
        ELSE IF first # <<>> THEN first
        ELSE IF keys # <<>> THEN d[keys[1]].str
        ELSE <<>>

\* parse_ai_response(stdout)
parse_ai_response(stdout) ==
    IF ~stdout.json THEN None
    ELSE IF TextOf(stdout) = <<>> THEN None
    ELSE ExtractArray(Strip(TextOf(stdout)))

\* What claude prints: no JSON, a JSON array, or a JSON object.
Garbage == [json |-> FALSE, type |-> "", dict |-> NoFields]

Wrapper(type, fields) == [json |-> TRUE, type |-> type, dict |-> fields]

\* The outputs that are parsed: every text as "result"; and short texts in
\* the other places of the wrapper.
Stdouts(n) ==
    {Garbage, Wrapper("list", NoFields), Wrapper("dict", NoFields)}
    \cup { Wrapper("dict", [result |-> WStr(text)]) : text \in Texts(n) }
    \cup { Wrapper("dict", [result |-> WStr(<<>>), content |-> WStr(text)]) :
           text \in Texts(2) }
    \cup { Wrapper("dict", [content |-> WBlocks(<<[type |-> "text", text |-> a],
                                                  [type |-> "tool_use", text |-> <<"w">>],
                                                  [type |-> "text", text |-> b]>>)]) :
           a \in Texts(1), b \in Texts(1) }
    \cup { Wrapper("dict", [content |-> WStr(<<>>), output |-> WStr(<<"[", "]">>),
                            message |-> WStr(text)]) :
           text \in Texts(1) }

\* The reply of one attempt is at hand.
InitParse ==
    /\ InitWith({Doc(<<>>, NoFields)}, NoOracle)
    /\ atlas_name = "kenney"

\* enrichments = parse_ai_response(result.stdout), for any output.
ParseReply ==
    /\ pc = "idle"
    /\ \E stdout \in Stdouts(MaxTokens) :
        /\ result' = [bound |-> TRUE, stdout |-> stdout]
        /\ enrichments' = parse_ai_response(stdout).list
        /\ Return(IF parse_ai_response(stdout).ok THEN "parsed" ELSE "unparsed")
    /\ UNCHANGED <<atlas_name, pool, rerun, disk, args, data, ordered_keys,
                   batch_start, valid_keys, attempt, printed, loaded, disk0,
                   calls, batches, pre, unmatched, prev_unmatched, tagger, peer, merged,
                   backups, enriched_keys, fixes, log_file, committed,
                   planned, issues, fixes_applied>>

SpecParse == InitParse /\ [][ParseReply]_vars

(* ------------------------------------------------------------ properties *)

\* The invocation has loaded the index.
Loaded == pc # "idle" /\ outcome \notin {"no_index", "no_output", "load_error"}

\* A field of a sprite is there and not empty.
Filled(info, f) ==
    /\ f \in DOMAIN info
    /\ IF f = "tags" THEN Len(info[f]) > 0 ELSE info[f] # ""

\* Description, tags and tile type of a sprite are all there and not empty.
AllFilled(info) == \A f \in EnrichFields : Filled(info, f)

\* The keys of the sprites of doc that are not completely filled.
Incomplete(doc) == {k \in DOMAIN doc.sprites : ~AllFilled(doc.sprites[k])}

\* The places <<i, j>> of the key in a sequence of batches.
PlacesOf(key, bs) ==
    {ij \in UNION {{<<i, j>> : j \in DOMAIN bs[i]} : i \in DOMAIN bs} :
        bs[ij[1]][ij[2]] = key}

\* bs is a plan for the incomplete sprites of doc in batches of b keys.
CoversIncomplete(bs, doc, b) ==
    /\ Len(bs) = CeilDiv(Cardinality(Incomplete(doc)), b)
    /\ \A i \in DOMAIN bs : Len(bs[i]) >= 1 /\ Len(bs[i]) <= b
    /\ \A k \in Incomplete(doc) : Cardinality(PlacesOf(k, bs)) = 1
    /\ \A i \in DOMAIN bs : Range(bs[i]) \subseteq Incomplete(doc)

\* C1: with N unenriched sprites, batch size B and no limit, the plan (the
\* batches a dry run lists, and the batches a completed run has started) has
\* exactly ceil(N/B) batches of 1..B keys each, which hold every unenriched
\* sprite exactly once and no enriched sprite; with N = 0 there is no batch.
C1_BatchPlan ==
    (pc = "done" /\ args.limit = 0) =>
        /\ outcome = "dry_run" => CoversIncomplete(printed, loaded, args.batch_size)
        /\ outcome = "completed" => CoversIncomplete(batches, loaded, args.batch_size)
        /\ outcome = "all_enriched" =>
              /\ Incomplete(loaded) = {}
              /\ printed = <<>> /\ batches = <<>>
        /\ outcome \in {"dry_run", "completed", "no_claude"} =>
              Incomplete(loaded) # {}

\* C1 witness: three sprites, two of them enriched, planned with batch size
\* 2 as one batch of one key; and a run of three unenriched sprites that
\* started two batches, the last one short.
C1_Witness ==
    /\ pc = "done" /\ args.limit = 0 /\ args.batch_size = 2
    /\ \/ /\ outcome = "dry_run"
          /\ Len(loaded.sprite_order) = 3
          /\ Cardinality(Incomplete(loaded)) = 1
          /\ Len(printed) = 1 /\ Len(printed[1]) = 1
       \/ /\ outcome = "completed"
          /\ Cardinality(Incomplete(loaded)) = 3
          /\ Len(batches) = 2 /\ Len(batches[2]) = 1

\* The group of a key in words of path segments: the first two segments when
\* there are two separators or more, the first segment when there is one,
\* "_root" when there is none (a backslash separates like a slash).
SepsOf(key) == {i \in DOMAIN key : key[i] \in {Ch.slash, Ch.backslash}}
NthSep(key, n) ==
    CHOOSE i \in SepsOf(key) : Cardinality({j \in SepsOf(key) : j < i}) = n - 1
GroupOf(key) ==
    IF Cardinality(SepsOf(key)) >= 2
    THEN NormSlashes(SubSeq(key, 1, NthSep(key, 2) - 1))
    ELSE IF Cardinality(SepsOf(key)) = 1
    THEN SubSeq(key, 1, NthSep(key, 1) - 1)
    ELSE RootPrefix

\* k comes before m in the order of the plan: by group, then by key.
PlanBefore(k, m) ==
    \/ LexLess(GroupOf(k), GroupOf(m))
    \/ GroupOf(k) = GroupOf(m) /\ LexLess(k, m)

\* C2: the plan lists the unenriched keys by group in lexicographic order of
\* the prefix and by key within a group, so it is the one ascending
\* arrangement of the set of unenriched keys, whatever the order of the
\* index; batch number i is the i-th slice of it. Two runs on an unchanged
\* catalog with the same batch size therefore get the same batches.
C2_PlanOrder ==
    (Loaded /\ outcome # "all_enriched") =>
        /\ \A i, j \in DOMAIN ordered_keys :
              i < j => PlanBefore(ordered_keys[i], ordered_keys[j])
        /\ Range(ordered_keys) \subseteq Incomplete(loaded)
        /\ args.limit = 0 => Range(ordered_keys) = Incomplete(loaded)
        /\ \A i \in DOMAIN batches : \A j \in DOMAIN batches[i] :
              batches[i][j] = ordered_keys[(i - 1) * args.batch_size + j]
        /\ \A i \in DOMAIN printed : \A j \in DOMAIN printed[i] :
              printed[i][j] = ordered_keys[(i - 1) * args.batch_size + j]

\* C2 witness: an index that lists "a\c\b", "b", "a/c/d" is planned as
\* "b" (group _root), "a/c/d", "a\c\b" (group a/c).
C2_Witness ==
    /\ pc = "done" /\ outcome = "dry_run"
    /\ loaded.sprite_order = <<KeyACBw, KeyB, KeyACD>>
    /\ ordered_keys = <<KeyB, KeyACD, KeyACBw>>
    /\ printed = <<<<KeyB, KeyACD>>, <<KeyACBw>>>>

\* The batches of a finished plan: listed by a dry run, started by a
\* completed run.
PlanDone(bs) ==
    /\ pc = "done"
    /\ \/ outcome = "dry_run" /\ bs = printed
       \/ outcome = "completed" /\ bs = batches

\* The keys of the batches, one batch after the other.
RECURSIVE Flatten(_)
Flatten(bs) == IF bs = <<>> THEN <<>> ELSE Head(bs) \o Flatten(Tail(bs))

\* C3 as stated: every batch holds keys of one group only, and a batch
\* shorter than the batch size is the last batch of its group.
C3_Original ==
    \A bs \in {printed, batches} : PlanDone(bs) =>
        /\ \A i \in DOMAIN bs : \A k, m \in Range(bs[i]) : GroupOf(k) = GroupOf(m)
        /\ \A i \in DOMAIN bs : Len(bs[i]) < args.batch_size =>
              \A j \in DOMAIN bs : j > i =>
                  \A k \in Range(bs[i]) : \A m \in Range(bs[j]) :
                      GroupOf(k) # GroupOf(m)

\* C3: the batches are consecutive slices of the whole ordered list, the
\* groups one after the other: every batch but the last of the plan holds
\* exactly the batch size of keys, whatever their groups, and only the last
\* batch of the plan can be shorter.
C3_Slices ==
    Loaded =>
        \A bs \in {printed, batches} :
            /\ Len(Flatten(bs)) <= Len(ordered_keys)
            /\ Flatten(bs) = SubSeq(ordered_keys, 1, Len(Flatten(bs)))
            /\ PlanDone(bs) => Flatten(bs) = ordered_keys
            /\ \A i \in DOMAIN bs :
                  /\ Len(bs[i]) >= 1 /\ Len(bs[i]) <= args.batch_size
                  /\ Len(bs[i]) < args.batch_size =>
                        i = CeilDiv(Len(ordered_keys), args.batch_size)

\* C3 witness: "b", "a/c", "a/c/d" are three groups (_root, a, a/c); with
\* batch size 2 the first batch holds two of them and the second the third.
C3_Witness ==
    /\ pc = "done" /\ outcome = "completed" /\ args.batch_size = 2
    /\ batches = <<<<KeyB, KeyAC>>, <<KeyACD>>>>
    /\ GroupOf(KeyB) # GroupOf(KeyAC) /\ GroupOf(KeyAC) # GroupOf(KeyACD)

\* The catalogs of a state: in memory, as loaded, and in the files.
StateDocs ==
    (IF Loaded THEN {data, loaded} ELSE {})
        \cup {disk[p].content : p \in {q \in Paths : disk[q].exists}}

\* C4: a sprite counts as enriched exactly when description, tags and
\* tile_type are all there and not empty; a sprite with one of them missing
\* or empty is not enriched, and is what a run without limit plans.
C4_Enriched ==
    /\ \A doc \in StateDocs : \A k \in DOMAIN doc.sprites :
          is_enriched(doc.sprites[k]) <=> AllFilled(doc.sprites[k])
    /\ (Loaded /\ args.limit = 0) =>
          \A k \in DOMAIN loaded.sprites :
              k \in Range(ordered_keys) <=>
                  \E f \in EnrichFields : ~Filled(loaded.sprites[k], f)

\* C4 witness: a sprite with a description and tags but an empty tile type
\* is planned.
C4_Witness ==
    /\ pc = "collect" /\ args.limit = 0
    /\ \E k \in DOMAIN loaded.sprites :
          /\ Filled(loaded.sprites[k], "description")
          /\ Filled(loaded.sprites[k], "tags")
          /\ "tile_type" \in DOMAIN loaded.sprites[k]
          /\ loaded.sprites[k].tile_type = ""
          /\ ~is_enriched(loaded.sprites[k])
          /\ k \in Range(ordered_keys)

\* C5: when every sprite of the loaded catalog is enriched, the invocation
\* ends at once: the oracle is never called, no file is created or written,
\* and no batch is listed or started.
C5_AllEnriched ==
    (Loaded /\ Incomplete(loaded) = {}) =>
        /\ pc = "done" /\ outcome = "all_enriched"
        /\ calls = 0
        /\ disk = disk0
        /\ data = loaded
        /\ printed = <<>> /\ batches = <<>>

\* C5 witness: an invocation on a catalog of two enriched sprites is over,
\* with the tagged output still absent.
C5_Witness ==
    /\ outcome = "all_enriched"
    /\ Len(loaded.sprite_order) = 2
    /\ \A k \in DOMAIN loaded.sprites : AllFilled(loaded.sprites[k])
    /\ atlas_name = "utumno" /\ ~disk[Config.output].exists

\* An entry of a reply supplies a description, a list of tags and a tile
\* type, none of them empty.
Supplies(e) ==
    /\ e.type = "dict"
    /\ EntryHas(e, "description") /\ EntryHas(e, "tile_type")
    /\ EntryHas(e, "tags") /\ e.dict.tags.type = "list"

\* And one of the tags is not the tile type.
SuppliesOtherTag(e) ==
    Supplies(e) /\ \E t \in Range(e.dict.tags.list) : t # e.dict.tile_type.str

\* After the merge of a reply of k entries for n keys: the first k sprites
\* are enriched, the other n - k are as they were, and not enriched.
FirstKEnriched ==
    /\ \A i \in 1..Len(enrichments) : AllFilled(data.sprites[valid_keys[i]])
    /\ \A i \in (Len(enrichments) + 1)..Len(valid_keys) :
          /\ data.sprites[valid_keys[i]] = pre[valid_keys[i]]
          /\ ~AllFilled(data.sprites[valid_keys[i]])

\* C6 as stated: a reply of k < n entries, each with a non-empty description,
\* tags and tile type, enriches exactly the first k sprites, and the other
\* n - k are in the plan of the next run.
C6_Original ==
    /\ (pc = "save" /\ Len(enrichments) < Len(valid_keys)
          /\ \A i \in DOMAIN enrichments : Supplies(enrichments[i]))
        => FirstKEnriched
    /\ (rerun /\ Loaded) => prev_unmatched \subseteq Range(ordered_keys)

\* C6: a reply of k < n entries, each with a non-empty description, a tile
\* type and a list of tags that holds a tag other than that tile type,
\* enriches exactly the first k sprites of the request; the other n - k are
\* left as they were, not enriched, and are in the plan of the next run when
\* that run has no limit.
C6_ShortReply ==
    /\ (pc = "save" /\ Len(enrichments) < Len(valid_keys)
          /\ \A i \in DOMAIN enrichments : SuppliesOtherTag(enrichments[i]))
        => FirstKEnriched
    /\ (rerun /\ Loaded /\ args.limit = 0)
        => prev_unmatched \subseteq Range(ordered_keys)

\* C6 witness: the run after a reply of one entry for two keys: the first
\* sprite carries the description of the reply, the other is the plan.
C6_Witness ==
    /\ rerun /\ pc = "collect" /\ args.limit = 0
    /\ Cardinality(prev_unmatched) = 1
    /\ Range(ordered_keys) = prev_unmatched
    /\ \E k \in DOMAIN loaded.sprites :
          /\ k \notin prev_unmatched
          /\ AllFilled(loaded.sprites[k])
          /\ loaded.sprites[k].description = EntryGood.dict.description.str

\* The positions of a key in the request.
PositionsOf(key) == {i \in DOMAIN valid_keys : valid_keys[i] = key}

\* C7: the merge is positional: after it, the sprite at position i of the
\* request is what entry i makes of it when entry i is there and is a dict,
\* and every other sprite is as before; so an entry that is not a dict does
\* not move the entries after it, and an entry beyond the last key of the
\* request changes nothing.
C7_Positional ==
    pc = "save" =>
        /\ \A i, j \in DOMAIN valid_keys : valid_keys[i] = valid_keys[j] => i = j
        /\ DOMAIN data.sprites = DOMAIN pre
        /\ \A key \in DOMAIN pre :
              data.sprites[key] =
                  IF \E i \in PositionsOf(key) :
                        i <= Len(enrichments) /\ enrichments[i].type = "dict"
                  THEN MergeEntry(pre[key],
                                  enrichments[CHOOSE i \in PositionsOf(key) : TRUE])
                  ELSE pre[key]

\* C7 witness: a reply of three entries for two keys whose first entry is a
\* string: the first sprite is as before, the second has the second entry.
C7_Witness ==
    /\ pc = "save" /\ Len(valid_keys) = 2
    /\ enrichments = <<EntryNotDict, EntryTypeInTags, EntryGood>>
    /\ data.sprites[valid_keys[1]] = pre[valid_keys[1]]
    /\ data.sprites[valid_keys[2]].description = "wooden door"
    /\ data.sprites[valid_keys[2]].tile_type = "door"

\* C8 as stated: a description, tags or tile type that is not empty before
\* the merge of an entry is not empty after it.
C8_Original ==
    pc = "save" =>
        \A key \in DOMAIN pre : \A f \in EnrichFields :
            Filled(pre[key], f) => Filled(data.sprites[key], f)

\* The tags of the sprite after the overwrites of entry e, before the strip.
TagsAfterOverwrite(info, e) ==
    IF EntryHas(e, "tags") /\ e.dict.tags.type = "list"
    THEN e.dict.tags.list
    ELSE info.tags

\* C8: a description or tile type that is not empty before the merge of an
\* entry is not empty after it; tags that are not empty before are not empty
\* after it unless the tags in place after the overwrite are the one tag
\* equal to the tile type of the sprite, which the strip then removes.
C8_NeverClears ==
    pc = "save" =>
        \A key \in DOMAIN pre :
            /\ Filled(pre[key], "description") => Filled(data.sprites[key], "description")
            /\ Filled(pre[key], "tile_type") => Filled(data.sprites[key], "tile_type")
            /\ (Filled(pre[key], "tags") /\ ~Filled(data.sprites[key], "tags")) =>
                  \E i \in PositionsOf(key) :
                      /\ i <= Len(enrichments) /\ enrichments[i].type = "dict"
                      /\ Filled(data.sprites[key], "tile_type")
                      /\ TagsAfterOverwrite(pre[key], enrichments[i])
                            = <<data.sprites[key].tile_type>>

\* C8 witness: an entry with an empty description and tags that are no list
\* leaves the description and the tags of the sprite as they were, and sets
\* its tile type.
C8_Witness ==
    /\ pc = "save" /\ valid_keys = <<KeyB>> /\ enrichments = <<EntryPartial>>
    /\ Filled(pre[KeyB], "description") /\ Filled(pre[KeyB], "tags")
    /\ data.sprites[KeyB].description = pre[KeyB].description
    /\ data.sprites[KeyB].tags = pre[KeyB].tags
    /\ ~Filled(pre[KeyB], "tile_type")
    /\ data.sprites[KeyB].tile_type = "wall"

\* C9 as stated: after the merge has applied an entry to a sprite, the tile
\* type of the sprite does not occur in its tags.
C9_Original ==
    pc = "save" =>
        \A i \in DOMAIN valid_keys :
            (i <= Len(enrichments) /\ enrichments[i].type = "dict") =>
                LET info == data.sprites[valid_keys[i]]
                IN  (Filled(info, "tile_type") /\ "tags" \in DOMAIN info) =>
                        info.tile_type \notin Range(info.tags)

\* The catalog without its sprites: the catalog-wide metadata and the order.
Metadata(doc) == [doc EXCEPT !.sprites = <<>>]

\* The keys of the batches started so far.
Requested == UNION {Range(batches[i]) : i \in DOMAIN batches}

\* C10: applying a batch changes only description, tags and tile_type of
\* sprites of that batch: the merge leaves every sprite outside the request
\* and every other field of every sprite as it was; what is saved is the
\* catalog in memory; and that catalog has the metadata, the keys in their
\* order and every other field of the loaded one; a separate index file is
\* never written.
C10_Frame ==
    /\ pc = "save" =>
          \A key \in DOMAIN pre :
              /\ key \notin Range(valid_keys) => data.sprites[key] = pre[key]
              /\ Without(data.sprites[key], EnrichFields)
                    = Without(pre[key], EnrichFields)
    /\ (Loaded /\ pc # "save" /\ disk[Config.output].exists) =>
          disk[Config.output].content = data
    /\ Loaded =>
          /\ Metadata(data) = Metadata(loaded)
          /\ DOMAIN data.sprites = DOMAIN loaded.sprites
          /\ \A key \in DOMAIN loaded.sprites :
                /\ Without(data.sprites[key], EnrichFields)
                      = Without(loaded.sprites[key], EnrichFields)
                /\ key \notin Requested => data.sprites[key] = loaded.sprites[key]
    /\ Config.index # Config.output => disk[Config.index] = disk0[Config.index]

\* C10 witness: a completed run has written the tagged output, in which a
\* sprite with an extra field is now enriched and still has the field, and
\* another sprite is as it was loaded.
C10_Witness ==
    /\ pc = "done" /\ outcome = "completed"
    /\ atlas_name = "utumno" /\ disk[Config.output].exists
    /\ LET saved == disk[Config.output].content
       IN  \E k, m \in DOMAIN saved.sprites :
              /\ k # m
              /\ "note" \in DOMAIN saved.sprites[k]
              /\ AllFilled(saved.sprites[k]) /\ ~AllFilled(loaded.sprites[k])
              /\ saved.sprites[m] = loaded.sprites[m]
              /\ ~AllFilled(saved.sprites[m])

\* The step ends the current iteration of the batch loop.
BatchEnds ==
    /\ pc \in {"collect", "oracle", "save"}
    /\ pc' = "done" \/ batch_start' # batch_start

\* The step is an invocation of the oracle.
Invokes == calls' = calls + 1

\* The retry rule: every step out of the oracle state is an invocation; one
\* that yields no array is followed by another attempt while fewer than
\* max_retries were made and ends the batch otherwise; a batch ends with at
\* most max_retries invocations; and once an array is parsed no invocation
\* is made for that batch.
RetryRule ==
    /\ pc = "oracle" => Invokes /\ attempt + 1 <= max_retries
    /\ (pc = "oracle" /\ pc' # "merge") =>
          IF attempt + 1 < max_retries
          THEN pc' = "oracle" /\ attempt' = attempt + 1 /\ ~BatchEnds
          ELSE BatchEnds
    /\ (pc = "oracle" /\ pc' = "merge") => attempt' = attempt
    /\ pc \in {"merge", "save"} => ~Invokes /\ pc' # "oracle"
    /\ pc = "save" => BatchEnds

\* C11 as stated: every batch ends after at least one and at most three
\* invocations of the oracle, under the retry rule.
C11_Original ==
    [][RetryRule /\ (BatchEnds => pc \in {"oracle", "save"})]_vars

\* C11: for every batch of which the image of at least one sprite loads, the
\* oracle is invoked at least once and at most three times, under the retry
\* rule; a batch of which no image loads ends without an invocation.
C11_Retries ==
    [][/\ RetryRule
       /\ (BatchEnds /\ pc = "collect") => ~Invokes
       /\ (pc = "collect" /\ ~BatchEnds) =>
             pc' = "oracle" /\ valid_keys' # <<>> /\ attempt' = 0 /\ ~Invokes]_vars

\* C11 witness: the third attempt for a batch has yielded an array, after
\* two attempts that failed.
C11_Witness ==
    /\ pc = "merge" /\ attempt = max_retries - 1
    /\ calls = max_retries /\ Len(batches) = 1

\* The step gives the current batch up: the last attempt yielded no array.
GivesUp == pc = "oracle" /\ BatchEnds

\* C12: when every attempt for a batch has failed the batch is skipped: the
\* step that gives it up changes no sprite, nothing else of the catalog in
\* memory, and no file.
C12_SkipNoEffect ==
    [][GivesUp => (calls' = calls + 1 /\ attempt + 1 = max_retries
                   /\ data' = data /\ disk' = disk)]_vars

\* C12 witness: a run of one batch is over after three failed attempts: the
\* catalog in memory is as loaded and the tagged output was never created.
C12_Witness ==
    /\ pc = "done" /\ outcome = "completed"
    /\ calls = max_retries /\ Len(batches) = 1
    /\ atlas_name = "utumno" /\ ~disk[Config.output].exists
    /\ data = loaded /\ disk = disk0

\* The batch after those started so far: the next slice of the plan.
NextSlice ==
    LET done == Len(Flatten(batches))
    IN  SubSeq(ordered_keys, done + 1,
               Min(done + args.batch_size, Len(ordered_keys)))

\* C13: a batch that is given up, for whatever failure, does not end the
\* run: the loop goes on with the next batch when there is one and the run
\* completes otherwise; the batches are started in the order of the plan,
\* each the next slice of it, and the run is over only when every batch of
\* the plan was started.
C13_FailureIsolated ==
    [][/\ GivesUp =>
             IF batch_start + args.batch_size < Len(ordered_keys)
             THEN /\ pc' = "collect" /\ outcome' = outcome
                  /\ batch_start' = batch_start + args.batch_size
             ELSE pc' = "done" /\ outcome' = "completed"
       /\ batches' # batches =>
             pc = "collect" /\ batches' = Append(batches, NextSlice)
       /\ (pc \in {"collect", "oracle", "merge", "save"} /\ pc' = "done") =>
             outcome' = "completed" /\ Flatten(batches') = ordered_keys]_vars

\* C13 witness: the second batch is at the oracle after the first one was
\* given up: three invocations, and still no tagged output.
C13_Witness ==
    /\ pc = "oracle" /\ attempt = 0 /\ calls = max_retries
    /\ Len(batches) = 2
    /\ atlas_name = "utumno" /\ ~disk[Config.output].exists

\* C14 as stated: in a verify run every batch whose attempts all failed is
\* logged with its keys, followed by the raw output of the last attempt of
\* that same batch, and the run goes on: no such run ends in an exception.
C14_Original ==
    \A i \in DOMAIN log_file :
        log_file[i].kind = "PARSE_FAILURE" =>
            /\ log_file[i].sprites # <<>>
            /\ i + 1 <= Len(log_file)
            /\ log_file[i + 1].kind = "RAW"
            /\ log_file[i + 1].of.batch = log_file[i].batch
            /\ log_file[i + 1].of.attempt = max_retries

\* C15 as stated: whatever happens to the process, every catalog file on disk
\* is a whole document, the one before a save or the one the save was given:
\* no file is ever a partial document.
C15_Original == \A p \in DOMAIN disk : ~Unloadable(disk[p])

\* C16 as stated: the invocation after a kill loads the catalog, still finds
\* enriched every sprite that a completed checkpoint of the killed invocation
\* had enriched, and does not plan any of them again.
C16_Original ==
    (rerun /\ pc # "idle") =>
        /\ outcome # "load_error"
        /\ \A k \in committed :
              /\ k \in DOMAIN data.sprites
              /\ AllFilled(data.sprites[k])
              /\ k \notin Range(ordered_keys)

\* The catalog a reader of the disk finds: the tagged output when there is one,
\* the index otherwise.
Persisted ==
    IF disk[Config.output].exists THEN load_index(disk[Config.output])
    ELSE load_index(disk[Config.index])

\* C17: whenever the oracle is about to be invoked for a batch, the catalog on
\* disk equals the catalog in memory; and once an earlier batch of the run has
\* changed the catalog or written a file, it is the output file that holds it.
C17_Synchronous ==
    pc = "oracle" =>
        /\ Persisted = data
        /\ (data # loaded \/ disk # disk0) =>
              /\ disk[Config.output].exists
              /\ load_index(disk[Config.output]) = data

\* C17 witness: the oracle is invoked for the second batch after the first
\* batch enriched a sprite and created the tagged output.
C17_Witness ==
    /\ pc = "oracle" /\ Len(batches) = 2
    /\ data # loaded
    /\ ~disk0[Config.output].exists /\ disk[Config.output].exists

\* C18: a run that ends because the claude binary is absent has invoked the
\* oracle for no batch, has changed no sprite and no file, and has created no
\* backup and no log entry, in enrichment mode and in verify mode.
C18_NoOracle ==
    outcome = "no_claude" =>
        /\ calls = 0 /\ batches = <<>>
        /\ data = loaded
        /\ disk = disk0
        /\ backups = <<>> /\ log_file = <<>>

\* C18 witness: both modes end on the absent binary, with work to do.
C18_WitnessEnrich ==
    /\ pool = PlainOracle /\ outcome = "no_claude" /\ ordered_keys # <<>>

C18_Witness ==
    /\ pool = VerifyOracle /\ outcome = "no_claude" /\ enriched_keys # <<>>

\* C19: a dry run invokes no oracle, leaves the catalog in memory and every
\* file as they were, and a run for real that follows it with the same batch
\* size and limit goes, batch for batch, through the batches it listed.
C19_DryRun ==
    /\ outcome = "dry_run" =>
          /\ calls = 0 /\ batches = <<>>
          /\ data = loaded /\ disk = disk0
          /\ printed = BatchesFrom(ordered_keys, 0, args.batch_size)
    /\ (/\ planned # NoPlan /\ pc = "done" /\ outcome = "completed"
        /\ args.batch_size = planned.args.batch_size
        /\ args.limit = planned.args.limit) =>
          batches = planned.printed

\* C19 witness: a limited run for real has gone through the one batch that
\* the dry run before it listed, out of a plan that had more.
C19_Witness ==
    /\ planned # NoPlan /\ pc = "done" /\ outcome = "completed"
    /\ args = [planned.args EXCEPT !.dry_run = FALSE]
    /\ args.limit = MaxLimit
    /\ Len(batches) = 1 /\ batches = planned.printed
    /\ data # loaded
    /\ \E k \in DOMAIN data.sprites :
          ~is_enriched(data.sprites[k]) /\ k \notin Range(ordered_keys)

\* C20: a check in report mode leaves every file and the list of backups as
\* they were, and the sprites in memory as they were loaded, whatever it
\* reports.
C20_ReportOnly ==
    [][(pc = "idle" /\ pc' = "done" /\ "fix" \in DOMAIN args' /\ ~args'.fix) =>
          /\ disk' = disk
          /\ backups' = backups
          /\ outcome' \in {"checked", "nothing_to_check"} =>
                /\ data' = loaded'
                /\ loaded' = load_index(disk[Config.output])]_vars

\* C20 witness: a report on a DCSS output in which a sprite has its tile type
\* among its tags, American spelling and an altar without its alignment.
C20_Witness ==
    /\ pc = "done" /\ outcome = "checked"
    /\ "fix" \in DOMAIN args /\ ~args.fix
    /\ \A cat \in {"TILE_TYPE_IN_TAGS", "SPELLING", "SPELLING_DESC",
                     "CREATURE_EQUIP_TAG", "ALTAR_ALIGN"} :
          \E i \in DOMAIN issues : issues[i].cat = cat
    /\ disk = disk0 /\ backups = <<>>

\* A check with --fix has run to its report.
FixPass == pc = "done" /\ "fix" \in DOMAIN args /\ args.fix /\ outcome = "checked"

\* C21: a check with --fix writes the output file iff it has applied at least
\* one fix, in one write that holds the sprites as every rule has left them;
\* without a fix, and when the output is missing, unreadable or has no
\* enriched sprite, no file changes.
C21_WriteOnce ==
    [][(pc = "idle" /\ pc' = "done" /\ "fix" \in DOMAIN args' /\ args'.fix) =>
          IF outcome' = "checked" /\ fixes_applied' > 0
          THEN /\ disk' = [disk EXCEPT ![Config.output] = save_index(data')]
               /\ data'.sprites =
                     RunChecks(loaded', Config.check_extra, TRUE).sprites
          ELSE disk' = disk]_vars

\* C21 witness: a check with --fix that has applied several fixes, has
\* reported from a report-only rule and has written the output.
C21_Witness ==
    /\ FixPass /\ ~rerun
    /\ fixes_applied > 1
    /\ \E i \in DOMAIN issues : issues[i].cat \in {"MANY_TAGS", "LONG_DESC", "DUPE_DESC"}
    /\ disk # disk0
    /\ disk[Config.output] = save_index(data)

\* C21 witness: a check with --fix that found nothing to fix and wrote nothing.
C21_WitnessNoFix ==
    /\ FixPass /\ ~rerun
    /\ fixes_applied = 0
    /\ issues # <<>>
    /\ disk = disk0

\* C22: in a check with --fix and in a verify run, as soon as a sprite in
\* memory differs from what was loaded or the output file differs from what
\* the invocation found, the newest backup holds the output file as the
\* invocation found it.
C22_BackupFirst ==
    (/\ pc # "idle"
     /\ \/ disk # disk0
        \/ loaded # NoData /\ data # loaded) =>
        /\ backups # <<>>
        /\ backups[Len(backups)] = disk0[Config.output]

\* C22 witness: a verify run has rewritten the output, and the backup holds
\* the old one.
C22_Witness ==
    /\ pool = VerifyOracle /\ pc = "done"
    /\ disk # disk0
    /\ backups = <<disk0[Config.output]>>
    /\ backups[1] # disk[Config.output]

\* C22 witness: the same for a check with --fix.
C22_WitnessFix ==
    /\ pool = NoOracle /\ FixPass
    /\ disk # disk0
    /\ backups = <<disk0[Config.output]>>
    /\ backups[1] # disk[Config.output]

\* C23: a check with --fix that follows a check with --fix applies no fix and
\* leaves the sprites and the output file as the first one left them.
C23_Original ==
    (rerun /\ FixPass) =>
        /\ fixes_applied = 0
        /\ data = loaded
        /\ disk = disk0

\* C24: after a check with --fix every sprite that was loaded is still in the
\* catalog, and every sprite that was enriched when loaded is enriched.
C24_Original ==
    FixPass =>
        \A key \in DOMAIN loaded.sprites :
            /\ key \in DOMAIN data.sprites
            /\ is_enriched(loaded.sprites[key]) => is_enriched(data.sprites[key])

\* C25: during and after a verify run every sprite that was enriched when
\* loaded is enriched, whatever fixes the oracle has returned for it.
C25_Original ==
    \A key \in DOMAIN loaded.sprites :
        is_enriched(loaded.sprites[key]) =>
            /\ key \in DOMAIN data.sprites
            /\ is_enriched(data.sprites[key])

\* C26: after a check with --fix no enriched sprite has its tile type among
\* its tags.
C26_Original ==
    FixPass =>
        \A key \in DOMAIN data.sprites :
            is_enriched(data.sprites[key]) =>
                data.sprites[key].tile_type \notin Range(data.sprites[key].tags)

\* The enriched sprites under dungeon/altars that were loaded without the tag
\* "sacred", by a check with the DCSS rules.
UnsacredAltars ==
    IF pc = "done" /\ outcome = "checked" /\ Config.check_extra = "check_dcss"
    THEN { key \in DOMAIN loaded.sprites :
             /\ is_enriched(loaded.sprites[key])
             /\ StartsWith(NormSlashes(key), AltarDir)
             /\ "sacred" \notin Range(loaded.sprites[key].tags) }
    ELSE {}

\* The ALTAR_ALIGN issues about a sprite.
AltarAlignIssues(key) ==
    { i \in DOMAIN issues : issues[i].cat = "ALTAR_ALIGN" /\ issues[i].key = key }

\* C27: for an enriched sprite under dungeon/altars without the tag "sacred",
\* a check in report mode lists exactly one ALTAR_ALIGN issue with its key,
\* which asks for "sacred", and leaves its tags as loaded; a check with --fix
\* leaves it with "sacred" among its tags and lists no ALTAR_ALIGN issue for
\* it.
C27_AltarAlign ==
    \A key \in UnsacredAltars :
        IF args.fix
        THEN /\ "sacred" \in Range(data.sprites[key].tags)
             /\ AltarAlignIssues(key) = {}
        ELSE /\ Cardinality(AltarAlignIssues(key)) = 1
             /\ \A i \in AltarAlignIssues(key) :
                    SubSeq(issues[i].detail, 1, 2) = <<"add", "sacred">>
             /\ data.sprites[key].tags = loaded.sprites[key].tags

\* C27 witness: a check with --fix has added "sacred" to an altar that has
\* lost another tag in the same pass.
C27_Witness ==
    /\ FixPass
    /\ \E key \in UnsacredAltars :
          /\ "sword" \in Range(loaded.sprites[key].tags)
          /\ "sword" \notin Range(data.sprites[key].tags)
          /\ "sacred" \in Range(data.sprites[key].tags)

\* C27 witness: a report lists two altars without "sacred", each once.
C27_WitnessReport ==
    /\ pc = "done" /\ outcome = "checked" /\ ~args.fix
    /\ Cardinality(UnsacredAltars) = 2
    /\ \A key \in UnsacredAltars : Cardinality(AltarAlignIssues(key)) = 1

\* C30: after a check with --fix under the DCSS rules no enriched creature
\* has a tag of CREATURE_STRIP_TAGS and no enriched altar has a tag of
\* ALTAR_STRIP_TAGS.
C30_Original ==
    (FixPass /\ Config.check_extra = "check_dcss") =>
        \A key \in DOMAIN data.sprites :
            LET info == data.sprites[key]
            IN  is_enriched(info) =>
                  /\ info.tile_type = "creature" =>
                        Range(info.tags) \cap CREATURE_STRIP_TAGS = {}
                  /\ info.tile_type = "altar" =>
                        Range(info.tags) \cap ALTAR_STRIP_TAGS = {}

\* The keys that were sent to the oracle in a request whose reply was merged.
AnsweredKeys == UNION { Range(merged[i].keys) : i \in DOMAIN merged }

\* The keys of the batches that were skipped: for want of images, or given up
\* after the last attempt.
SkippedBatchKeys ==
    UNION { Range(batches[i]) :
            i \in {j \in DOMAIN batches : Range(batches[j]) \cap AnsweredKeys = {}} }

\* The keys of answered batches that were not in the request: no image.
LeftOutKeys ==
    UNION { Range(batches[i]) : i \in DOMAIN batches } \ (AnsweredKeys \cup SkippedBatchKeys)

\* An entry with a non-empty description, tile type and list of tags.
CompleteEntry(entry) ==
    /\ entry.type = "dict"
    /\ EntryHas(entry, "description") /\ EntryHas(entry, "tile_type")
    /\ EntryHas(entry, "tags") /\ entry.dict.tags.type = "list"

\* Every merged reply had one entry per key of its request, all of them
\* complete; and all of them with a tag other than the tile type.
AnsweredCompletely ==
    \A i \in DOMAIN merged :
        /\ Len(merged[i].entries) = Len(merged[i].keys)
        /\ \A j \in DOMAIN merged[i].entries : CompleteEntry(merged[i].entries[j])

AnsweredWithOtherTags ==
    /\ AnsweredCompletely
    /\ \A i \in DOMAIN merged :
          \A j \in DOMAIN merged[i].entries : SuppliesOtherTag(merged[i].entries[j])

\* The todo list of an invocation that finds the files d (lines 593-607).
NextTodo(d) ==
    Todo(IF d[Config.output].exists THEN load_index(d[Config.output])
         ELSE load_index(d[Config.index]))

\* The first invocation has gone through its batch loop.
FirstRunOver == pc = "done" /\ ~rerun /\ outcome = "completed"

\* The invocation after it has made its plan, and has started no batch.
SecondRunPlanned == rerun /\ Loaded /\ batches = <<>>

\* C29 as stated: after a run whose batches were all skipped or answered with
\* one complete entry per requested sprite, the plan of the next run holds
\* exactly the sprites of the skipped batches.
C29_Original ==
    /\ (FirstRunOver /\ AnsweredCompletely) =>
          Range(NextTodo(disk)) = SkippedBatchKeys
    /\ SecondRunPlanned => Range(ordered_keys) = Range(NextTodo(disk0))

\* C29: after a run that went through its batch loop and whose batches were
\* all skipped or answered with one entry per requested sprite, each with a
\* description, a tile type and a tag other than that tile type, the todo
\* list of the next run holds exactly the sprites that were to do and were
\* in no answered request: those of the skipped batches, those left out of a
\* request for want of an image, and those beyond the limit; without a limit
\* these are the sprites of the skipped batches and the ones left out. The
\* next run plans that list, cut to limit * batch_size keys when it has a
\* limit.
C29_Retry ==
    /\ (FirstRunOver /\ AnsweredWithOtherTags) =>
          /\ Range(NextTodo(disk)) = Range(Todo(loaded)) \ AnsweredKeys
          /\ SkippedBatchKeys \subseteq Range(NextTodo(disk))
          /\ args.limit = 0 =>
                Range(NextTodo(disk)) = SkippedBatchKeys \cup LeftOutKeys
    /\ SecondRunPlanned =>
          /\ loaded.sprites # <<>> =>
                ordered_keys = ApplyLimit(OrderedKeys(NextTodo(disk0)), args.limit,
                                          args.batch_size)
          /\ args.limit = 0 => Range(ordered_keys) = Range(NextTodo(disk0))

\* C29 witness: a run without limit has skipped one batch and had a useful
\* answer for another, and exactly the skipped sprite is to do next.
C29_Witness ==
    /\ FirstRunOver /\ AnsweredWithOtherTags /\ args.limit = 0
    /\ AnsweredKeys # {} /\ LeftOutKeys = {}
    /\ Cardinality(SkippedBatchKeys) = 1
    /\ Range(NextTodo(disk)) = SkippedBatchKeys

\* C29 witness: the run after a run, planning the one sprite that is to do.
C29_WitnessNext ==
    /\ SecondRunPlanned /\ pc = "collect"
    /\ Len(ordered_keys) = 1
    /\ \E key \in DOMAIN loaded.sprites : is_enriched(loaded.sprites[key])

\* The "]" that closes the "[" at position i: the first position from j on
\* where as many brackets are closed as were opened; 0 when there is none.
RECURSIVE ClosingOf(_, _, _)
ClosingOf(text, j, depth) ==
    IF j > Len(text) THEN 0
    ELSE IF text[j] = "[" THEN ClosingOf(text, j + 1, depth + 1)
    ELSE IF text[j] = "]"
    THEN IF depth = 1 THEN j ELSE ClosingOf(text, j + 1, depth - 1)
    ELSE ClosingOf(text, j + 1, depth)

\* The first balanced stretch "[ ... ]" of the text that is a JSON array,
\* looking at the "[" from left to right.
RECURSIVE FirstBalancedArray(_, _)
FirstBalancedArray(text, opens) ==
    IF opens = <<>> THEN None
    ELSE LET close == ClosingOf(text, Head(opens) + 1, 1)
             found == IF close = 0 THEN None
                      ELSE LoadsList(SubSeq(text, Head(opens), close))
         IN  IF found.ok THEN found ELSE FirstBalancedArray(text, Tail(opens))

\* The extraction as stated: the whole text, then the text between the
\* fences, then the first balanced array.
ExtractAsStated(text) ==
    IF LoadsList(text).ok THEN LoadsList(text)
    ELSE IF Fenced(text).ok THEN Fenced(text)
    ELSE FirstBalancedArray(text, Positions(text, "["))

\* The text of the output that was parsed, stripped.
ReplyText == Strip(TextOf(result.stdout))

\* C28 as stated: the array returned for a reply with text is that of the
\* first of the three methods that yields one, the third being the first
\* balanced JSON array in the text; and None is returned only when none of
\* them yields one.
C28_Original ==
    (pc = "done" /\ result.stdout.json /\ TextOf(result.stdout) # <<>>) =>
        [ok |-> outcome = "parsed", list |-> enrichments] = ExtractAsStated(ReplyText)

\* A check with the DCSS rules has run to its report.
DcssPass == pc = "done" /\ outcome = "checked" /\ Config.check_extra = "check_dcss"

\* The entries of the directory table whose prefix starts the key.
DirEntriesOf(key) ==
    { e \in Range(DIR_EXPECTED_TAGS) : StartsWith(NormSlashes(key), e.prefix) }

\* The tags an entry of the directory table implies and the sprite lacks,
\* its own tile type left aside.
DirLacking(info, entry) ==
    { t \in Range(entry.expected) :
        /\ t \notin Range(info.tags)
        /\ t # (IF "tile_type" \in DOMAIN info THEN info.tile_type ELSE "") }

\* C31: after a check with --fix under the DCSS rules every sprite that was
\* enriched when loaded and whose key starts with a prefix of the directory
\* table has each tag of that prefix, its own tile type excepted; without
\* --fix each such sprite that lacks one has exactly one DIR_MISMATCH issue
\* per prefix, naming the lacking tags, and no other sprite has one.
C31_DirTags ==
    DcssPass =>
        \A key \in DOMAIN loaded.sprites :
            LET was == loaded.sprites[key]
                now == data.sprites[key]
                mine == { i \in DOMAIN issues :
                            issues[i].cat = "DIR_MISMATCH" /\ issues[i].key = key }
            IN  IF args.fix
                THEN /\ is_enriched(was) =>
                            \A e \in DirEntriesOf(key) : DirLacking(now, e) = {}
                     /\ mine = {}
                ELSE LET lacking == { e \in DirEntriesOf(key) :
                                        is_enriched(was) /\ DirLacking(was, e) # {} }
                     IN  /\ Cardinality(mine) = Cardinality(lacking)
                         /\ \A e \in lacking : \E i \in mine :
                                Range(issues[i].detail) = DirLacking(was, e)

\* C31 witness: a fix pass has added the tag of its directory to one sprite
\* and has left an altar under dungeon/altars without the tag "altar", which
\* is its tile type.
C31_Witness ==
    /\ DcssPass /\ args.fix
    /\ \E key \in DOMAIN loaded.sprites :
         /\ is_enriched(loaded.sprites[key])
         /\ \E e \in DirEntriesOf(key) :
              /\ DirLacking(loaded.sprites[key], e) # {}
              /\ Range(e.expected) \subseteq Range(data.sprites[key].tags)
    /\ \E key \in DOMAIN loaded.sprites :
         /\ is_enriched(loaded.sprites[key])
         /\ \E e \in DirEntriesOf(key) :
              /\ e.name = "dungeon/altars"
              /\ data.sprites[key].tile_type = "altar"
              /\ "altar" \notin Range(data.sprites[key].tags)

\* C31 witness: a report pass has filed a DIR_MISMATCH issue and changed
\* nothing.
C31_WitnessReport ==
    /\ DcssPass /\ ~args.fix
    /\ \E i \in DOMAIN issues : issues[i].cat = "DIR_MISMATCH"
    /\ data = loaded

\* C32 as stated: after a check with --fix under the DCSS rules every
\* enriched sprite under dungeon/altars has "sacred", has "holy" iff its god
\* is a holy one, has "unholy" iff its god is an unholy one, and never both.
C32_Original ==
    (DcssPass /\ args.fix) =>
        \A key \in DOMAIN data.sprites :
            LET info == data.sprites[key]
                norm == NormSlashes(key)
                should_holy == GodBase(norm) \in HOLY_GODS \/ GodName(norm) \in HOLY_GODS
                should_unholy == GodBase(norm) \in UNHOLY_GODS
                                    \/ GodName(norm) \in UNHOLY_GODS
            IN  (is_enriched(info) /\ StartsWith(norm, AltarDir)) =>
                    /\ "sacred" \in Range(info.tags)
                    /\ "holy" \in Range(info.tags) <=> should_holy
                    /\ "unholy" \in Range(info.tags) <=> should_unholy
                    /\ ~("holy" \in Range(info.tags) /\ "unholy" \in Range(info.tags))

\* A check has run to its report.
CheckPass == pc = "done" /\ outcome = "checked"

\* The indices of the issues of one category about one key.
IssuesOf(cat, key) ==
    { i \in DOMAIN issues : issues[i].cat = cat /\ issues[i].key = key }

\* Lines 1100-1152: the sprites and the count of fixes as the rules that may
\* fix leave them, before the rules that only report.
RulesThatFix(doc, check_extra, fix) ==
    LET keys == EnrichedKeys(doc)
        st0 == [sprites |-> doc.sprites, issues |-> <<>>, fixes |-> 0]
        base == ForEach("DescSpelling", keys,
                    ForEach("TagSpelling", keys,
                        ForEach("StripTileType", keys, st0, fix), fix), fix)
    IN  IF check_extra = "check_dcss" THEN check_dcss(base, keys, fix) ELSE base

\* C33: in a check, with or without --fix, a sprite that was enriched when
\* loaded has a FEW_TAGS issue iff it has fewer than 3 tags, a MANY_TAGS issue
\* iff it has more than 10, a SHORT_DESC issue iff its description has fewer
\* than 30 characters and a LONG_DESC issue iff it has more than 300, each at
\* most once; no other sprite has one, and the sprites and the count of fixes
\* are what the rules before these left.
C33_ReportOnly ==
    CheckPass =>
        /\ \A key \in DOMAIN loaded.sprites :
            LET info == data.sprites[key]
                n == Len(info.tags)
                len == Len(Chars(info.description))
                on(cat, c) == Cardinality(IssuesOf(cat, key)) = IF c THEN 1 ELSE 0
            IN  IF is_enriched(loaded.sprites[key])
                THEN /\ on("FEW_TAGS", n < 3)
                     /\ on("MANY_TAGS", n > 10)
                     /\ on("SHORT_DESC", len < 30)
                     /\ on("LONG_DESC", len > 300)
                ELSE \A cat \in {"FEW_TAGS", "MANY_TAGS", "SHORT_DESC", "LONG_DESC"} :
                        IssuesOf(cat, key) = {}
        /\ LET before == RulesThatFix(loaded, Config.check_extra, args.fix)
           IN  /\ data.sprites = before.sprites
               /\ fixes_applied = before.fixes

\* C33 witness: a check with --fix has fixed a sprite and has filed a
\* FEW_TAGS, a SHORT_DESC and a LONG_DESC issue.
C33_Witness ==
    /\ CheckPass /\ args.fix /\ fixes_applied > 0
    /\ \A cat \in {"FEW_TAGS", "SHORT_DESC", "LONG_DESC"} :
         \E i \in DOMAIN issues : issues[i].cat = cat

\* C33 witness: a check has filed a MANY_TAGS issue, and no FEW_TAGS issue
\* for a sprite with exactly 3 tags.
C33_WitnessTags ==
    /\ CheckPass
    /\ \E i \in DOMAIN issues : issues[i].cat = "MANY_TAGS"
    /\ \E key \in DOMAIN data.sprites :
         /\ is_enriched(loaded.sprites[key])
         /\ Len(data.sprites[key].tags) = 3
         /\ IssuesOf("FEW_TAGS", key) = {}

\* The keys, in the order of the catalog, of the sprites that were enriched
\* when loaded and now have the description.
SharersOf(desc) ==
    SelectSeq(EnrichedKeys(loaded), LAMBDA k : data.sprites[k].description = desc)

\* The base names of the keys: the part after the last "/", without ".png"
\* and without a final _<digits>.
BaseNames(keys) == { StripNumberSuffix(FileName(k)) : k \in Range(keys) }

\* C34: in a check, for every description of a sprite that was enriched when
\* loaded there is one DUPE_DESC issue if two or more such sprites have
\* exactly that description and their keys have more than one base name, and
\* none otherwise; the issue names those keys; every DUPE_DESC issue is one
\* of these, and the sprites are what the rules that fix left.
C34_DupeDesc ==
    CheckPass =>
        LET dupes == { i \in DOMAIN issues : issues[i].cat = "DUPE_DESC" }
            descs == { data.sprites[k].description : k \in Range(EnrichedKeys(loaded)) }
            flagged(d) == Len(SharersOf(d)) >= 2 /\ Cardinality(BaseNames(SharersOf(d))) > 1
        IN  /\ \A d \in descs :
                 LET about == { i \in dupes : issues[i].detail = <<d>> }
                 IN  IF flagged(d)
                     THEN /\ Cardinality(about) = 1
                          /\ \A i \in about : issues[i].key = Join(SharersOf(d))
                     ELSE about = {}
            /\ \A i \in dupes : \E d \in descs : issues[i].detail = <<d>>
            /\ data.sprites = RulesThatFix(loaded, Config.check_extra, args.fix).sprites

\* C34 witness: a check has filed a DUPE_DESC issue for two sprites.
C34_Witness ==
    /\ CheckPass
    /\ \E i \in DOMAIN issues :
         /\ issues[i].cat = "DUPE_DESC"
         /\ Len(SharersOf(issues[i].detail[1])) = 2

\* C34 witness: two sprites of one base name have one description and no
\* DUPE_DESC issue is filed.
C34_WitnessSameBase ==
    /\ CheckPass
    /\ \E k \in Range(EnrichedKeys(loaded)) :
         LET same == SharersOf(data.sprites[k].description)
         IN  Len(same) = 2 /\ Cardinality(BaseNames(same)) = 1
    /\ \A i \in DOMAIN issues : issues[i].cat # "DUPE_DESC"

\* Sprites that are not enriched although they have every field: without
\* description, without tags, without tile type; and three enriched ones,
\* the last with a tag in both spellings. On each of them some rule would fix
\* or report if it were applied.
PartialStates ==
    { [description |-> "",
       tags |-> <<"creature", "weapon", "gray">>, tile_type |-> "creature"],
      [description |-> "Gray lich in armor",
       tags |-> <<>>, tile_type |-> "creature"],
      [description |-> "an altar of grayish stone, stained with old blood",
       tags |-> <<"stone", "sword">>, tile_type |-> ""],
      [description |-> "Gray lich in armor",
       tags |-> <<"creature", "weapon", "armor", "creature">>,
       tile_type |-> "creature"],
      [description |-> "an altar of grayish stone, stained with old blood",
       tags |-> <<"stone", "sword">>, tile_type |-> "altar"],
      [description |-> "a grey lich wearing tattered funeral robes",
       tags |-> <<"gray", "grey", "undead">>, tile_type |-> "creature"] }

\* The tagged outputs of at most n such sprites, on neighbouring keys.
PartialCatalogs(n) ==
    UNION { { Doc(order, [k \in Range(order) |->
                              e[k] @@ BaseInfo(IndexOfCheckKey(k))]) :
              e \in [Range(order) -> PartialStates] } :
            order \in { SubSeq(CheckKeyUniverse, w[1], w[1] + w[2] - 1) :
                        w \in {x \in (DOMAIN CheckKeyUniverse) \X (0..n) :
                                  x[1] + x[2] - 1 <= Len(CheckKeyUniverse)} } }

InitPartial == InitWith(PartialCatalogs(MaxFewSprites), NoOracle)

\* Checks of catalogs that hold partly filled sprites.
SpecPartial == InitPartial /\ [][NextCheck]_vars

\* C36: in a check, with or without --fix, a sprite that was not enriched
\* when the catalog was loaded is as it was loaded, and no issue is about it:
\* no issue has its key, and a DUPE_DESC issue names enriched sprites only.
C36_EnrichedOnly ==
    CheckPass =>
        /\ \A key \in DOMAIN loaded.sprites :
             ~is_enriched(loaded.sprites[key]) =>
                /\ data.sprites[key] = loaded.sprites[key]
                /\ \A i \in DOMAIN issues : issues[i].key # key
        /\ \A i \in DOMAIN issues :
             IF issues[i].cat = "DUPE_DESC"
             THEN issues[i].key = Join(SharersOf(issues[i].detail[1]))
             ELSE issues[i].key \in Range(EnrichedKeys(loaded))

\* C36 witness: a check with --fix has fixed an enriched sprite and has left
\* alone a sprite without description whose tags hold its tile type.
C36_Witness ==
    /\ CheckPass /\ args.fix /\ fixes_applied > 0
    /\ \E key \in DOMAIN loaded.sprites :
         /\ ~is_enriched(loaded.sprites[key])
         /\ "tile_type" \in DOMAIN data.sprites[key]
         /\ data.sprites[key].tile_type \in Range(data.sprites[key].tags)

\* C36 witness: a check without --fix has reported on an enriched sprite
\* beside a sprite without tags whose description has an American spelling.
C36_WitnessReport ==
    /\ CheckPass /\ ~args.fix /\ issues # <<>>
    /\ \E key \in DOMAIN loaded.sprites :
         /\ "description" \in DOMAIN loaded.sprites[key]
         /\ loaded.sprites[key].description = "Gray lich in armor"
         /\ loaded.sprites[key].tags = <<>>

\* No tag occurs twice.
IsSet(tags) == Cardinality(Range(tags)) = Len(tags)

\* C39 as stated: if no enriched sprite has a tag twice when a check with
\* --fix loads the catalog, none has when it reports.
C39_Original ==
    (/\ CheckPass /\ args.fix
     /\ \A key \in DOMAIN loaded.sprites :
          is_enriched(loaded.sprites[key]) => IsSet(loaded.sprites[key].tags)) =>
        \A key \in DOMAIN data.sprites :
            is_enriched(data.sprites[key]) => IsSet(data.sprites[key].tags)

\* The keys of the enriched sprites of a catalog.
EnrichedSet(doc) == { k \in DOMAIN doc.sprites : is_enriched(doc.sprites[k]) }

\* C37: no step of an enrichment run takes a sprite out of the set of the
\* enriched ones, and a sprite that was enriched when the run loaded the
\* catalog is in no batch, in no request to the oracle, and is in memory as
\* it was loaded.
C37_Monotone ==
    [][/\ (Loaded /\ Loaded') => EnrichedSet(data) \subseteq EnrichedSet(data')
       /\ Loaded' =>
            \A k \in EnrichedSet(loaded') :
                /\ k \notin Range(ordered_keys')
                /\ k \notin UNION {Range(batches'[i]) : i \in DOMAIN batches'}
                /\ k \notin Range(valid_keys')
                /\ data'.sprites[k] = loaded'.sprites[k]]_vars

\* C37 witness: a run is over in which the oracle was invoked; one sprite
\* was enriched when loaded and another has become enriched.
C37_Witness ==
    /\ pc = "done" /\ outcome = "completed" /\ calls > 0
    /\ EnrichedSet(loaded) # {}
    /\ EnrichedSet(data) \ EnrichedSet(loaded) # {}

\* The catalogs of the first n keys of the universe, n up to MaxFewSprites:
\* the first sprite fresh from the indexer or enriched, the others fresh.
FirstKeysCatalogs ==
    UNION { { Doc(SubSeq(KeyUniverse, 1, n),
                  [k \in Range(SubSeq(KeyUniverse, 1, n)) |->
                       (IF k = KeyUniverse[1] THEN first ELSE NoFields)
                           @@ BaseInfo(IndexOfKey(k))]) :
              first \in FewEnrichStates } :
            n \in 0..MaxFewSprites }

InitLive == InitWith(FirstKeysCatalogs, PlainOracle)

\* One invocation that is never suspended for ever: the tool is one
\* sequential process, and every call of the oracle returns or times out
\* (subprocess.run with timeout=120).
SpecLive == InitLive /\ [][NextOnce]_vars /\ WF_vars(NextOnce)

\* The batches started so far are the first slices of the plan, each of
\* batch_size keys but possibly the last.
StartedInPlanOrder ==
    \A i \in DOMAIN batches :
        batches[i] = BatchAt(ordered_keys, (i - 1) * args.batch_size, args.batch_size)

\* C38: an enrichment run comes to its end; the batches it starts are the
\* slices of its plan, one after the other and each once, all of them when
\* the run completes; and with N unenriched sprites and batch size B it
\* invokes the oracle at most 3 * ceil(N / B) times.
C38_Terminates ==
    /\ <>(pc = "done")
    /\ [](Loaded =>
            LET N == Len(Todo(loaded))
                B == args.batch_size
            IN  /\ StartedInPlanOrder
                /\ Len(batches) <= CeilDiv(N, B)
                /\ calls <= 3 * CeilDiv(N, B)
                /\ (pc = "done" /\ outcome = "completed") =>
                      Len(batches) = CeilDiv(Len(ordered_keys), B))

\* C38 witness: a run of two batches is over after six invocations of the
\* oracle, every one of which failed.
C38_Witness ==
    /\ pc = "done" /\ outcome = "completed"
    /\ Len(batches) = 2
    /\ calls = 3 * CeilDiv(Len(Todo(loaded)), args.batch_size)
    /\ data = loaded

\* Two runs on a catalog that is fresh from the indexer.
InitTwo ==
    /\ InitLive
    /\ \A p \in Paths : disk[p].exists =>
          Todo(disk[p].content) = disk[p].content.sprite_order

SpecTwo == InitTwo /\ [][NextTwo]_vars

\* The keys the second run has enriched and saved.
PeerPersisted == IF peer.pc = "idle" THEN {} ELSE peer.persisted

\* The step is a checkpoint of the first run.
Checkpoints == pc = "save" /\ (pc' = "done" \/ batch_start' # batch_start)

\* C35: two enrichment runs on the same files are not isolated. A run reads
\* the files once, when it starts, and its catalog in memory changes by its
\* own merges only; each checkpoint of either run replaces the output by
\* that run's own copy, whatever the file held: of the sprites the other run
\* had enriched and saved, the file keeps those that are enriched in the
\* writer's copy and loses the others.
C35_NoIsolation ==
    [][/\ (Loaded /\ Loaded' /\ data' # data) => pc = "merge"
       /\ Checkpoints =>
            /\ disk'[Config.output] = save_index(data)
            /\ \A k \in PeerPersisted :
                 is_enriched(disk'[Config.output].content.sprites[k])
                    <=> is_enriched(data.sprites[k])
       /\ (peer' # peer /\ disk' # disk) =>
            disk'[Config.output] = save_index(peer'.data)]_vars

\* C35 witness: both runs are over; the second had enriched and saved a
\* sprite, and the output, as the last checkpoint of the first run left it,
\* holds that sprite unenriched.
C35_Witness ==
    /\ pc = "done" /\ outcome = "completed"
    /\ peer.pc = "done"
    /\ disk[Config.output] = save_index(data)
    /\ \E k \in PeerPersisted : ~is_enriched(disk[Config.output].content.sprites[k])

\* C35 witness: the same loss while the first run is still running.
C35_WitnessRunning ==
    /\ pc \in {"collect", "oracle", "merge", "save"}
    /\ peer.pc = "run"
    /\ disk[Config.output].exists
    /\ \E k \in PeerPersisted : ~is_enriched(disk[Config.output].content.sprites[k])

\* The tagger, on its own.
SpecTagger == InitParse /\ [][NextTagger]_vars

\* C40 as stated: a generated name or description is in the form only while
\* the tile it was requested for is current, and is saved only with that
\* tile.
C40_Original ==
    /\ \A e \in {tagger.name_entry, tagger.desc_entry} :
         e.by = "ai" => e.for = CurrentTile
    /\ \A tile \in DOMAIN tagger.sprites :
         \A e \in {tagger.sprites[tile].name, tagger.sprites[tile].description} :
             e.by = "ai" => e.for = tile
====
